---- MODULE Spec2Model ----
(***************************************************************************)
(* Model of the versioned knowledge graph engine of mnemosyne-mcp          *)
(* (Neo4jStorageProvider): entity / relation rows with validity intervals, *)
(* the write operations that supersede rows inside one store transaction,  *)
(* and the retrieval orchestration of semanticSearch.                      *)
(*                                                                         *)
(* Numbers that can be fractions in the source are in hundredths:          *)
(* similarity scores, strength, confidence and search limits (0.6 is 60,   *)
(* a limit of 1 is 100).                                                   *)
(***************************************************************************)
EXTENDS Integers, Sequences, FiniteSets, TLC

VARIABLES entities, relations, clock, nextId, embeddingService,
          vectorInitialized, decayConfig, calls, process, files, localEmbedding, router, last

vars == <<entities, relations, clock, nextId, embeddingService,
          vectorInitialized, decayConfig, calls, process, files, localEmbedding, router, last>>

(***************************************************************************)
(* Bounds of the model.                                                    *)
(***************************************************************************)
\* uuids handed out in one run of the write specification
MaxId == 4
\* uuids handed out in one run of the specification with store failures
MaxFaultId == 3
\* items of one batch in the specification with store failures
MaxFaultBatch == 1
\* uuids handed out in one run of the search specification
MaxSearchId == 2
\* items of one batch in the search specification
MaxSearchBatch == 1
\* uuids handed out in one run of the hydration specification
MaxHydrateId == 4
\* items of one batch in the hydration specification
MaxHydrateBatch == 1
MaxTimeId == 3
MaxTimeBatch == 1
MaxDecayId == 3
MaxDecayBatch == 1
MaxDecayClock == 3
MaxSkipId == 4
MaxSkipBatch == 2
MaxUpdateId == 4
MaxUpdateBatch == 1
MaxHistoryId == 7
MaxHistoryEntityId == 3
MaxHistoryRelationId == 4
MaxHistoryBatch == 1
MaxEmbedId == 4
MaxEmbedBatch == 2
MaxRaceId == 6
MaxRaceEntityId == 1
MaxRaceRelationId == 2
\* last instant Date.now() reaches
MaxClock == 2
\* longest batch passed to a write operation
MaxBatch == 2
\* last statement of a transaction at which a store failure is injected
MaxFail == 3

(***************************************************************************)
(* Value domains.                                                          *)
(***************************************************************************)
\* validTo of a current row (the property is null in the store)
Null == 0
\* an optional input the caller did not supply (undefined)
Undef == -1
\* the embedding service threw
Fail == -1

Names == {"A", "B"}
Types == {"t1", "t2"}
RelTypes == {"r"}
\* one unit of a number of the source that can be a fraction
Scale == 100

Min(a, b) == IF a <= b THEN a ELSE b

SeqToSet(s) == {s[i] : i \in DOMAIN s}

\* s.filter(x => keep(x)) for a membership test against a set
RECURSIVE FilterNotIn(_, _)
FilterNotIn(s, S) ==
  IF s = <<>> THEN <<>>
  ELSE IF Head(s) \in S THEN FilterNotIn(Tail(s), S)
       ELSE <<Head(s)>> \o FilterNotIn(Tail(s), S)

\* all sequences over S of length 1..n
RECURSIVE SeqsUpTo(_, _)
SeqsUpTo(S, n) ==
  IF n = 0 THEN {}
  ELSE {<<x>> : x \in S} \cup
       {<<x>> \o t : x \in S, t \in SeqsUpTo(S, n - 1)}

(***************************************************************************)
(* The store and one open transaction on it.                               *)
(* A transaction works on a copy (ents, rels); nid is the uuid counter,    *)
(* stmts counts the statements sent so far, failAt is the statement at     *)
(* which the store throws (0: never), failed says it has thrown, embeds     *)
(* counts the calls of the embedding service made while it is open.        *)
(***************************************************************************)
BeginTransaction(failAt) ==
  [ents |-> entities, rels |-> relations, nid |-> nextId, stmts |-> 0,
   failAt |-> failAt, failed |-> FALSE, dirty |-> FALSE, results |-> <<>>,
   embeds |-> 0]

\* txc.run / txc.commit: the store may throw on this statement
Run(tx) ==
  [tx EXCEPT !.stmts = tx.stmts + 1,
             !.failed = (tx.failAt = tx.stmts + 1)]

CurrentByName(ents, name) == {e \in ents : e.name = name /\ e.validTo = Null}
RowsByName(ents, name) == {e \in ents : e.name = name}
EntityById(ents, id) == CHOOSE e \in ents : e.id = id
NameOfId(ents, id) == (EntityById(ents, id)).name

\* records[0] of a result set: the store returns rows in an order of its own
FirstEntity(rows, pick) ==
  IF pick = "lo" THEN CHOOSE e \in rows : \A f \in rows : e.id <= f.id
  ELSE CHOOSE e \in rows : \A f \in rows : e.id >= f.id

\* relation rows share one id when one CREATE made several of them
FirstRelation(rows, pick) ==
  IF pick = "lo" THEN CHOOSE r \in rows : \A q \in rows : r.id <= q.id
  ELSE CHOOSE r \in rows : \A q \in rows : r.id >= q.id

\* an embedding property that was set to null
NoEmb == 0
\* carry-forward defaults of addObservations, in hundredths
DefaultStrength == 90
DefaultConfidence == 95

\* `value || null` on a relation property: undefined and 0 are both stored absent
OrNull(v) == IF v = Undef \/ v = 0 THEN Undef ELSE v

\* a rollback that is lost: what the transaction wrote so far stays
KeepPartial(tx) == [ents |-> tx.ents, rels |-> tx.rels]
\* the transaction is rolled back: the store keeps the rows it had before
Rollback(tx) == [ents |-> entities, rels |-> relations]
Committed(tx) == [ents |-> tx.ents, rels |-> tx.rels]
\* the last statement of every write handler
Commit(tx) == IF tx.failed THEN tx ELSE Run(tx)

(***************************************************************************)
(* createEntities                                                          *)
(***************************************************************************)
\* a generateEmbedding error that leaves the handler
Rethrown(tx) == [tx EXCEPT !.failed = TRUE]

\* catch (error) { logger.error(...) }: continue without embedding
Caught(tx) == tx

\* with an embedding service, generateEmbedding is awaited for the item, then
\* the CREATE statement is sent
CreateEntityItem(tx, entity, now) ==
  LET embedding == IF embeddingService /\ entity.emb # Fail
                   THEN entity.emb ELSE NoEmb
      called == [tx EXCEPT !.embeds = @ + 1]
      t0 == IF ~embeddingService THEN tx
            ELSE IF entity.emb = Fail THEN Caught(called) ELSE called
      t1 == IF t0.failed THEN t0 ELSE Run(t0)
      row == [id |-> tx.nid, name |-> entity.name,
              entityType |-> entity.entityType,
              observations |-> entity.observations, version |-> 1,
              createdAt |-> now,
              \* validFrom: entity.validFrom || now
              validFrom |-> IF entity.validFrom = Undef \/ entity.validFrom = 0
                            THEN now ELSE entity.validFrom,
              validTo |-> Null, embedding |-> embedding]
  IN IF t1.failed THEN t1
     ELSE [t1 EXCEPT !.ents = @ \cup {row}, !.nid = @ + 1, !.dirty = TRUE,
                     !.results = Append(@, entity.name)]

RECURSIVE CreateEntitiesLoop(_, _, _)
CreateEntitiesLoop(tx, batch, now) ==
  IF batch = <<>> \/ tx.failed THEN tx
  ELSE CreateEntitiesLoop(CreateEntityItem(tx, Head(batch), now), Tail(batch), now)

(***************************************************************************)
(* createRelations                                                         *)
(***************************************************************************)
\* MATCH (from {name}) MATCH (to {name}) CREATE (from)-[r]->(to): one row for
\* every pair of stored rows carrying the two names
RelationRows(ents, fromName, toName, props) ==
  {[props EXCEPT !.fromId = f.id, !.toId = t.id] :
     f \in RowsByName(ents, fromName), t \in RowsByName(ents, toName)}

\* a check that throws where the handler continues
Abort(tx) == [tx EXCEPT !.failed = TRUE]

\* checkResult.records.length === 0: logger.warn and continue
Skip(tx) == tx

CreateRelationItem(tx, relation, now) ==
  LET t1 == Run(tx)
      found == RowsByName(t1.ents, relation.from) # {}
               /\ RowsByName(t1.ents, relation.to) # {}
      t2 == Run(t1)
      props == [id |-> t1.nid, fromId |-> 0, toId |-> 0,
                relationType |-> relation.relationType,
                strength |-> OrNull(relation.strength),
                confidence |-> OrNull(relation.confidence),
                metadata |-> relation.metadata, version |-> 1,
                createdAt |-> now, validFrom |-> now, validTo |-> Null]
  IN IF t1.failed THEN t1
     ELSE IF ~found THEN Skip(t1)
     ELSE IF t2.failed THEN t2
     ELSE [t2 EXCEPT !.rels = @ \cup RelationRows(t1.ents, relation.from,
                                                  relation.to, props),
                     !.nid = @ + 1, !.dirty = TRUE,
                     !.results = Append(@, <<relation.from, relation.to,
                                            relation.relationType>>)]

RECURSIVE CreateRelationsLoop(_, _, _)
CreateRelationsLoop(tx, batch, now) ==
  IF batch = <<>> \/ tx.failed THEN tx
  ELSE CreateRelationsLoop(CreateRelationItem(tx, Head(batch), now),
                           Tail(batch), now)

(***************************************************************************)
(* addObservations                                                         *)
(***************************************************************************)
\* SET e.validTo = $now, and the same on every current relation touching e
Invalidate(tx, e, now) ==
  [tx EXCEPT
     !.ents = {IF x.id = e.id THEN [x EXCEPT !.validTo = now] ELSE x : x \in @},
     !.rels = {IF (r.fromId = e.id \/ r.toId = e.id) /\ r.validTo = Null
               THEN [r EXCEPT !.validTo = now] ELSE r : r \in @},
     !.dirty = TRUE]

\* the copy of a relation made for the new entity version
CarriedRelation(relProps, newId, fromId, toId, now) ==
  [id |-> newId, fromId |-> fromId, toId |-> toId,
   relationType |-> relProps.relationType,
   strength |-> IF relProps.strength # Undef THEN relProps.strength
                ELSE DefaultStrength,
   confidence |-> IF relProps.confidence # Undef THEN relProps.confidence
                  ELSE DefaultConfidence,
   metadata |-> relProps.metadata,
   version |-> relProps.version,
   createdAt |-> relProps.createdAt, validFrom |-> now, validTo |-> Null]

\* Step 5: one CREATE per collected relation; dir says which end is the new row
RECURSIVE RecreateRelations(_, _, _, _, _)
RecreateRelations(tx, rels, newEntityId, dir, now) ==
  IF rels = {} \/ tx.failed THEN tx
  ELSE LET r == CHOOSE q \in rels :
                  \A p \in rels : <<q.id, q.fromId, q.toId>> = <<p.id, p.fromId, p.toId>>
                     \/ q.id < p.id
                     \/ (q.id = p.id /\ q.fromId < p.fromId)
                     \/ (q.id = p.id /\ q.fromId = p.fromId /\ q.toId < p.toId)
           t1 == Run(tx)
           new == IF dir = "out"
                  THEN CarriedRelation(r, tx.nid, newEntityId, r.toId, now)
                  ELSE CarriedRelation(r, tx.nid, r.fromId, newEntityId, now)
       IN IF t1.failed THEN t1
          ELSE RecreateRelations(
                 [t1 EXCEPT !.rels = @ \cup {new}, !.nid = @ + 1],
                 rels \ {r}, newEntityId, dir, now)

\* CREATE of the next version of an entity row (no embedding property is set)
NewVersion(e, newId, observations, now) ==
  [id |-> newId, name |-> e.name, entityType |-> e.entityType,
   observations |-> observations, version |-> e.version + 1,
   createdAt |-> e.createdAt, validFrom |-> now, validTo |-> Null,
   embedding |-> NoEmb]

\* Steps 2 to 5 for the row and the relations that Step 1 has read
SupersedeEntity(t1, obs, e, outgoingRels, incomingRels, now) ==
  LET newObservations == FilterNotIn(obs.contents, SeqToSet(e.observations))
      allObservations == e.observations \o newObservations
      t2 == Run(t1)
      t3 == Run(Invalidate(t2, e, now))
      newEntityId == t1.nid
      t4 == [t3 EXCEPT !.ents = @ \cup {NewVersion(e, newEntityId,
                                                  allObservations, now)},
                       !.nid = @ + 1]
      t5 == RecreateRelations(t4, outgoingRels, newEntityId, "out", now)
      t6 == RecreateRelations(t5, incomingRels, newEntityId, "in", now)
  IN IF newObservations = <<>>
     THEN [t1 EXCEPT !.results = Append(@, <<obs.entityName, <<>> >>)]
     ELSE IF t2.failed THEN t2
     ELSE IF t3.failed THEN t3
     ELSE IF t6.failed THEN t6
     ELSE [t6 EXCEPT !.results = Append(@, <<obs.entityName, newObservations>>)]

AddObservationItem(tx, obs, pick, now) ==
  LET t1 == Run(tx)
      cur == CurrentByName(t1.ents, obs.entityName)
      e == FirstEntity(cur, pick)
      outgoingRels == {r \in t1.rels : r.fromId = e.id /\ r.validTo = Null}
      incomingRels == {r \in t1.rels : r.toId = e.id /\ r.validTo = Null}
  IN IF obs.contents = <<>> THEN tx
     ELSE IF t1.failed \/ cur = {} THEN t1
     ELSE SupersedeEntity(t1, obs, e, outgoingRels, incomingRels, now)

RECURSIVE AddObservationsLoop(_, _, _, _)
AddObservationsLoop(tx, batch, pick, now) ==
  IF batch = <<>> \/ tx.failed THEN tx
  ELSE AddObservationsLoop(AddObservationItem(tx, Head(batch), pick, now),
                           Tail(batch), pick, now)

(***************************************************************************)
(* deleteObservations: the entity row is superseded, relations are not     *)
(* touched.                                                                *)
(***************************************************************************)
DeleteObservationItem(tx, deletion, pick, now) ==
  LET t1 == Run(tx)
      cur == CurrentByName(t1.ents, deletion.entityName)
      e == FirstEntity(cur, pick)
      updatedObservations ==
        FilterNotIn(e.observations, SeqToSet(deletion.observations))
      t2 == Run(t1)
      closed == [t2 EXCEPT
                   !.ents = {IF x.id = e.id THEN [x EXCEPT !.validTo = now]
                             ELSE x : x \in @},
                   !.dirty = TRUE]
      t3 == Run(closed)
  IN IF deletion.observations = <<>> THEN tx
     ELSE IF t1.failed \/ cur = {} THEN t1
     ELSE IF t2.failed THEN t2
     ELSE IF t3.failed THEN t3
     ELSE [t3 EXCEPT !.ents = @ \cup {NewVersion(e, t1.nid,
                                                 updatedObservations, now)},
                     !.nid = @ + 1]

RECURSIVE DeleteObservationsLoop(_, _, _, _)
DeleteObservationsLoop(tx, batch, pick, now) ==
  IF batch = <<>> \/ tx.failed THEN tx
  ELSE DeleteObservationsLoop(DeleteObservationItem(tx, Head(batch), pick, now),
                              Tail(batch), pick, now)

(***************************************************************************)
(* deleteEntities: DETACH DELETE of every row carrying one of the names    *)
(***************************************************************************)
DeleteEntitiesRun(tx, entityNames) ==
  LET t1 == Run(tx)
      gone == {e.id : e \in {x \in t1.ents : x.name \in entityNames}}
  IN IF t1.failed THEN t1
     ELSE [t1 EXCEPT !.ents = {e \in @ : e.id \notin gone},
                     !.rels = {r \in @ : r.fromId \notin gone
                                         /\ r.toId \notin gone},
                     !.dirty = TRUE]

(***************************************************************************)
(* deleteRelations: DELETE of every relation row between the two names     *)
(* with the relationType, closed rows too                                  *)
(***************************************************************************)
DeleteRelationItem(tx, relation) ==
  LET t1 == Run(tx)
  IN IF t1.failed THEN t1
     ELSE [t1 EXCEPT !.rels = {r \in @ :
                                 ~(/\ NameOfId(t1.ents, r.fromId) = relation.from
                                   /\ NameOfId(t1.ents, r.toId) = relation.to
                                   /\ r.relationType = relation.relationType)},
                     !.dirty = TRUE]

RECURSIVE DeleteRelationsLoop(_, _)
DeleteRelationsLoop(tx, batch) ==
  IF batch = <<>> \/ tx.failed THEN tx
  ELSE DeleteRelationsLoop(DeleteRelationItem(tx, Head(batch)), Tail(batch))

(***************************************************************************)
(* updateEntityEmbedding: SET e.embedding on the current rows of the name  *)
(***************************************************************************)
UpdateEntityEmbeddingRun(tx, entityName, vector) ==
  LET t1 == Run(tx)
  IN IF t1.failed THEN t1
     ELSE [t1 EXCEPT !.ents = {IF e.name = entityName /\ e.validTo = Null
                               THEN [e EXCEPT !.embedding = vector]
                               ELSE e : e \in @},
                     !.dirty = TRUE]

(***************************************************************************)
(* updateRelation                                                          *)
(***************************************************************************)
\* MATCH (from {name})-[r]->(to {name}): relation rows between the two names
RelationsBetween(ents, rels, fromName, toName) ==
  {r \in rels : NameOfId(ents, r.fromId) = fromName
                /\ NameOfId(ents, r.toId) = toName}

CurrentRelations(ents, rels, fromName, toName, relationType) ==
  {r \in RelationsBetween(ents, rels, fromName, toName) :
     r.relationType = relationType /\ r.validTo = Null}

\* value || previous: a supplied 0 is dropped
SuppliedOrPrevious(value, previous) ==
  IF value # Undef /\ value # 0 THEN value ELSE previous

\* value !== undefined ? value : previous
Supplied(value, previous) == IF value # Undef THEN value ELSE previous

UpdateRelationRun(tx, relation, pick, now) ==
  LET t1 == Run(tx)
      cur == CurrentRelations(t1.ents, t1.rels, relation.from, relation.to,
                              relation.relationType)
      currentRel == FirstRelation(cur, pick)
      t2 == Run(t1)
      hit == {r \in RelationsBetween(t1.ents, t1.rels, relation.from,
                                     relation.to) : r.id = currentRel.id}
      closed == [t2 EXCEPT
                   !.rels = {IF r \in hit THEN [r EXCEPT !.validTo = now]
                             ELSE r : r \in @},
                   !.dirty = TRUE]
      t3 == Run(closed)
      props == [id |-> t1.nid, fromId |-> 0, toId |-> 0,
                relationType |-> relation.relationType,
                strength |-> Supplied(relation.strength, currentRel.strength),
                confidence |-> Supplied(relation.confidence,
                                        currentRel.confidence),
                metadata |-> IF relation.metadata # Undef
                             THEN relation.metadata ELSE currentRel.metadata,
                version |-> currentRel.version + 1,
                createdAt |-> currentRel.createdAt, validFrom |-> now,
                validTo |-> Null]
  IN IF t1.failed THEN t1
     \* throw new Error(`Relation not found ...`)
     ELSE IF cur = {} THEN [t1 EXCEPT !.failed = TRUE]
     ELSE IF t2.failed THEN t2
     ELSE IF t3.failed THEN t3
     ELSE [t3 EXCEPT !.rels = @ \cup RelationRows(t1.ents, relation.from,
                                                  relation.to, props),
                     !.nid = @ + 1]

(***************************************************************************)
(* Reads: nodeToEntity, relation hydration, searchNodes, openNodes,        *)
(* getEntity.  order is the order in which the store returns rows.         *)
(***************************************************************************)
NodeToEntity(node) ==
  [name |-> node.name, entityType |-> node.entityType,
   observations |-> node.observations, id |-> node.id,
   version |-> node.version, createdAt |-> node.createdAt,
   validFrom |-> node.validFrom, validTo |-> node.validTo]

\* the rows of a result set in the order the store returns them
RECURSIVE Ordered(_, _)
Ordered(rows, order) ==
  IF rows = {} THEN <<>>
  ELSE LET first == FirstEntity(rows, order)
       IN <<first>> \o Ordered(rows \ {first}, order)

MapNodeToEntity(rows) == [i \in DOMAIN rows |-> NodeToEntity(rows[i])]
NamesOf(list) == {list[i].name : i \in DOMAIN list}
EmptyGraph == [entities |-> <<>>, relations |-> {}]

\* relationshipToRelation on one record of a relation query
RelationshipToRelation(ents, r) ==
  [from |-> NameOfId(ents, r.fromId), to |-> NameOfId(ents, r.toId),
   relationType |-> r.relationType,
   strength |-> IF r.strength = Null THEN Undef ELSE r.strength,
   confidence |-> IF r.confidence = Null THEN Undef ELSE r.confidence,
   row |-> <<r.id, r.fromId, r.toId>>]

\* a hydration that tests the from name only
HydrateOutgoing(ents, rels, names) ==
  {RelationshipToRelation(ents, r) :
     r \in {q \in rels : /\ NameOfId(ents, q.fromId) \in names
                         /\ q.validTo = Null}}

\* MATCH (from)-[r]->(to) WHERE from.name IN $names AND to.name IN $names
\* AND r.validTo IS NULL, each record through relationshipToRelation
HydrateRelations(ents, rels, names) ==
  {RelationshipToRelation(ents, r) :
     r \in {q \in rels : /\ NameOfId(ents, q.fromId) \in names
                         /\ NameOfId(ents, q.toId) \in names
                         /\ q.validTo = Null}}

\* x || d for a number x: undefined and 0 give d
OrDefault(x, d) == IF x = Undef \/ x = 0 THEN d ELSE x
\* Math.floor of a number in hundredths
Floor(x) == (x \div Scale) * Scale

\* e.name =~ q OR e.entityType =~ q OR e.observations =~ q, with q the
\* pattern (?i).*query.*; the model's texts are tokens none of which is
\* part of another
Matches(e, query) ==
  \/ e.name = query
  \/ e.entityType = query
  \/ query \in SeqToSet(e.observations)

DefaultLimit == 10

SearchNodes(ents, rels, query, options, order) ==
  LET rawLimit == OrDefault(options.limit, DefaultLimit * Scale)
      limit == Floor(rawLimit) \div Scale
      filtered == Len(options.entityTypes) > 0
      matching == {e \in ents :
                     /\ Matches(e, query)
                     /\ filtered => e.entityType \in SeqToSet(options.entityTypes)
                     /\ e.validTo = Null}
      rows == Ordered(matching, order)
      found == MapNodeToEntity(SubSeq(rows, 1, Min(limit, Len(rows))))
  IN [entities |-> found,
      relations |-> IF Len(found) > 0
                    THEN HydrateRelations(ents, rels, NamesOf(found))
                    ELSE {}]

OpenNodes(ents, rels, names, order) ==
  IF names = {} THEN EmptyGraph
  ELSE [entities |-> MapNodeToEntity(
                       Ordered({e \in ents : e.name \in names /\ e.validTo = Null},
                               order)),
        relations |-> HydrateRelations(ents, rels, names)]

\* <<>> for null (there is no current row), else <<records[0]>>
GetEntity(ents, entityName, order) ==
  IF CurrentByName(ents, entityName) = {} THEN <<>>
  ELSE <<NodeToEntity(FirstEntity(CurrentByName(ents, entityName), order))>>

\* the unfiltered read of the current graph
LoadGraph(ents, rels, order) ==
  [entities |-> MapNodeToEntity(Ordered({e \in ents : e.validTo = Null}, order)),
   relations |-> {RelationshipToRelation(ents, r) :
                    r \in {q \in rels : q.validTo = Null}}]

\* WHERE validFrom <= $timestamp AND (validTo IS NULL OR validTo > $timestamp)
ValidAt(row, timestamp) ==
  /\ row.validFrom <= timestamp
  /\ row.validTo = Null \/ row.validTo > timestamp

GetGraphAtTime(ents, rels, timestamp, order) ==
  [entities |-> MapNodeToEntity(
                  Ordered({e \in ents : ValidAt(e, timestamp)}, order)),
   relations |-> {RelationshipToRelation(ents, r) :
                    r \in {q \in rels : ValidAt(q, timestamp)}}]

(***************************************************************************)
(* getDecayedGraph.  The clock of the model counts days of DayMs           *)
(* milliseconds; a confidence is a number of hundredths.                   *)
(***************************************************************************)
DayMs == 1

RECURSIVE Pow2(_)
Pow2(k) == IF k <= 0 THEN 1 ELSE 2 * Pow2(k - 1)

\* confidence * Math.exp((Math.log(0.5) / halfLifeMs) * ageDiff), exact when
\* ageDiff is a whole number of half-lives
Decay(confidence, halfLifeMs, ageDiff) ==
  IF ageDiff >= 0 THEN confidence \div Pow2(ageDiff \div halfLifeMs)
  ELSE confidence * Pow2((0 - ageDiff) \div halfLifeMs)

\* the property of an object, undefined when the object does not have it
Property(object, key) ==
  IF key \in DOMAIN object THEN object[key] ELSE Undef

\* a || b || c on timestamps
FirstSet(a, b, c) ==
  IF a # Undef /\ a # 0 THEN a ELSE IF b # Undef /\ b # 0 THEN b ELSE c

\* the decayed confidence with no lower limit
Unfloored(decayedConfidence, minConfidence) == decayedConfidence

\* if (decayedConfidence < minConfidence) decayedConfidence = minConfidence
Floored(decayedConfidence, minConfidence) ==
  IF decayedConfidence < minConfidence THEN minConfidence
  ELSE decayedConfidence

\* a callback that halves the strength and leaves the confidence
ApplyDecayToStrength(relation, config, startTime) ==
  [relation EXCEPT !.strength = IF @ = Undef THEN @ ELSE @ \div 2]

\* the decay of one relation the map callback receives from
\* relationshipToRelation
ApplyDecay(relation, config, startTime) ==
  IF relation.confidence = Null \/ relation.confidence = Undef THEN relation
  ELSE LET ageDiff == startTime - FirstSet(Property(relation, "validFrom"),
                                           Property(relation, "createdAt"),
                                           startTime)
           decayedConfidence == Decay(relation.confidence,
                                      config.halfLifeDays * DayMs, ageDiff)
       IN [relation EXCEPT !.confidence =
                             Floored(decayedConfidence, config.minConfidence)]

\* each record of the relation query keeps the row it came from
GetDecayedGraph(ents, rels, config, startTime, order) ==
  IF ~config.enabled THEN LoadGraph(ents, rels, order)
  ELSE [entities |-> MapNodeToEntity(
                       Ordered({e \in ents : e.validTo = Null}, order)),
        relations |-> {ApplyDecay(RelationshipToRelation(ents, r), config,
                                  startTime) :
                         r \in {q \in rels : q.validTo = Null}}]

(***************************************************************************)
(* The vector index entity_embeddings and semanticSearch.                  *)
(***************************************************************************)
\* similarity of two vectors as the index scores it, in hundredths
Score(queryVector, embedding) ==
  LET d == IF queryVector >= embedding THEN queryVector - embedding
           ELSE embedding - queryVector
  IN IF d = 0 THEN 100 ELSE IF d = 1 THEN 61 ELSE 59

\* rows by descending score, equal scores in the order of the store
RECURSIVE Ranked(_, _, _)
Ranked(rows, queryVector, order) ==
  IF rows = {} THEN <<>>
  ELSE LET top == {e \in rows : \A f \in rows :
                     Score(queryVector, e.embedding) >=
                       Score(queryVector, f.embedding)}
           first == FirstEntity(top, order)
       IN <<first>> \o Ranked(rows \ {first}, queryVector, order)

\* CALL db.index.vector.queryNodes('entity_embeddings', k, vector): the k
\* nearest of all the rows that carry an embedding, superseded rows too
QueryNodes(ents, k, queryVector, order) ==
  LET indexed == Ranked({e \in ents : e.embedding # NoEmb}, queryVector, order)
  IN SubSeq(indexed, 1, Min(k, Len(indexed)))

RECURSIVE SelectScore(_, _, _)
SelectScore(records, queryVector, minScore) ==
  IF records = <<>> THEN <<>>
  ELSE IF Score(queryVector, Head(records).embedding) >= minScore
       THEN <<Head(records)>> \o SelectScore(Tail(records), queryVector, minScore)
       ELSE SelectScore(Tail(records), queryVector, minScore)

\* records.map(getEntity).filter(Boolean), each entity with the record's score
RECURSIVE Resolve(_, _, _, _)
Resolve(ents, records, queryVector, order) ==
  IF records = <<>> THEN <<>>
  ELSE LET entity == GetEntity(ents, Head(records).name, order)
           rest == Resolve(ents, Tail(records), queryVector, order)
       IN IF entity = <<>> THEN rest
          ELSE <<[entity |-> entity[1],
                  score |-> Score(queryVector, Head(records).embedding)]>> \o rest

\* findSimilarEntities: [] when the query throws; nullRead is what the driver
\* hands back for the validTo of a current row (null, or undefined when the
\* store keeps no property for a null)
FindSimilarEntities(ents, queryVector, limit, answers, nullRead, order) ==
  LET records == QueryNodes(ents, Floor(limit) \div Scale, queryVector, order)
      found == Resolve(ents, records, queryVector, order)
      valid == IF nullRead = Null THEN found ELSE <<>>
  IN IF ~answers THEN <<>>
     ELSE SubSeq(valid, 1, Min(limit \div Scale, Len(valid)))

RECURSIVE FilterResults(_, _, _)
FilterResults(results, minSimilarity, entityTypes) ==
  IF results = <<>> THEN <<>>
  ELSE LET r == Head(results)
           keep == /\ r.score >= minSimilarity
                   /\ \/ Len(entityTypes) = 0
                      \/ r.entity.entityType \in SeqToSet(entityTypes)
           rest == FilterResults(Tail(results), minSimilarity, entityTypes)
       IN IF keep THEN <<r>> \o rest ELSE rest

DefaultMinSimilarity == 60

\* the branch taken when options.queryVector is set on entry
VectorSearch(ents, rels, options, env) ==
  LET searchLimit == Floor(OrDefault(options.limit, DefaultLimit * Scale))
      minSimilarity == OrDefault(options.minSimilarity, DefaultMinSimilarity)
      \* the direct index query
      records == SelectScore(QueryNodes(ents, searchLimit \div Scale,
                                        options.queryVector, env.order),
                             options.queryVector, minSimilarity)
      found == Resolve(ents, records, options.queryVector, env.order)
      direct ==
        IF Len(records) > 0 /\ Len(found) > 0
        THEN [steps |-> <<"vectorSearch", "completed">>,
              graph |-> OpenNodes(ents, rels,
                                  {found[i].entity.name : i \in DOMAIN found},
                                  env.order)]
        ELSE [steps |-> <<"vectorSearch", "completed">>, graph |-> EmptyGraph]
      \* the direct query threw: findSimilarEntities with twice the limit
      results == FindSimilarEntities(ents, options.queryVector, searchLimit * 2,
                                     env.fallback, env.nullRead, env.order)
      filteredResults ==
        LET f == FilterResults(results, minSimilarity, options.entityTypes)
        IN SubSeq(f, 1, Min(searchLimit \div Scale, Len(f)))
      indirect ==
        IF Len(filteredResults) = 0
        THEN [steps |-> <<"vectorSearch", "error", "filterResults">>,
              graph |-> EmptyGraph]
        ELSE [steps |-> <<"vectorSearch", "error", "filterResults", "openNodes">>,
              graph |-> OpenNodes(ents, rels,
                                  {filteredResults[i].entity.name :
                                     i \in DOMAIN filteredResults},
                                  env.order)]
  IN IF env.index THEN direct ELSE indirect

\* the text search at the end of semanticSearch
TextSearch(ents, rels, query, options, env) ==
  LET textSearchLimit == Floor(OrDefault(options.limit, DefaultLimit * Scale))
  IN [steps |-> <<"textSearch">>,
      graph |-> SearchNodes(ents, rels, query,
                            [options EXCEPT !.limit = textSearchLimit],
                            env.order)]

\* env: what the embedding service and the store answer during the call
SemanticSearchRun(ents, rels, service, query, options, env) ==
  IF options.queryVector = Undef /\ service
  THEN LET t == TextSearch(ents, rels, query, options, env)
       IN [t EXCEPT !.steps = <<"generateQueryEmbedding",
                                IF env.embed = Fail THEN "error" ELSE "success">>
                              \o @]
  ELSE IF options.queryVector # Undef
       THEN VectorSearch(ents, rels, options, env)
       ELSE TextSearch(ents, rels, query, options, env)

(***************************************************************************)
(* Inputs of the write operations.                                         *)
(***************************************************************************)
BatchesUpTo(S, n) == {<<>>} \cup SeqsUpTo(S, n)
Batches(S) == BatchesUpTo(S, MaxBatch)

\* an entity to create, with what the embedding service answers when it is
\* asked to embed it: one of `answers` (a vector, or Fail when it throws)
\* validFroms: the validFrom values callers pass (Undef: none)
TimedEntityItems(types, answers, validFroms) ==
  [name : Names, entityType : types, observations : {<<"x">>}, emb : answers,
   validFrom : validFroms]

EntityItems(types, answers) == TimedEntityItems(types, answers, {Undef})

\* confidences: the confidence values callers pass (Undef: none)
RatedRelationItems(confidences) ==
  [from : Names, to : Names, relationType : RelTypes, strength : {Undef},
   confidence : confidences, metadata : {Undef}]

RelationItems == RatedRelationItems({Undef})

RelationUpdates ==
  [from : Names, to : Names, relationType : RelTypes, strength : {Undef, 50},
   confidence : {Undef}, metadata : {Undef}]

ObservationItems == [entityName : Names, contents : {<<"x">>, <<"y">>}]
DeletionItems == [entityName : Names, observations : {<<"x">>, <<"y">>}]

\* the batches the write specifications draw from
WriteEntityBatches == Batches(EntityItems({"t1"}, {1}))
RelationBatches == Batches(RelationItems)
ObservationBatches == Batches(ObservationItems)
DeletionBatches == Batches(DeletionItems)
\* the shorter batches of the specification with store failures
FaultEntityBatches == BatchesUpTo(EntityItems({"t1"}, {1}), MaxFaultBatch)
FaultRelationBatches == BatchesUpTo(RelationItems, MaxFaultBatch)
FaultObservationBatches == BatchesUpTo(ObservationItems, MaxFaultBatch)
FaultDeletionBatches == BatchesUpTo(DeletionItems, MaxFaultBatch)

\* statement of the transaction at which the store throws (0: it does not)
FailPoints == 0 .. MaxFail
NoFailure == {0}
\* the order in which the store returns the rows of one result set; it matters
\* only when some result set can hold more than one row
Picks ==
  IF \/ \E n \in Names : Cardinality(CurrentByName(entities, n)) > 1
     \/ \E r, q \in relations : r.id # q.id /\ r.validTo = Null /\ q.validTo = Null
  THEN {"lo", "hi"} ELSE {"lo"}

(***************************************************************************)
(* The write handlers as actions.  cap bounds the uuids handed out.        *)
(***************************************************************************)
\* catch (error) { await txc.rollback(); throw error; }
Outcome(tx) == IF tx.failed THEN "error" ELSE "ok"

\* the end of a handler; input and results are what the caller passed and got
Finish(op, tx, input, cap) ==
  LET after == IF tx.failed THEN Rollback(tx) ELSE Committed(tx)
  IN /\ tx.nid - 1 <= cap
     /\ tx.failAt = 0 \/ tx.failed
     /\ entities' = after.ents
     /\ relations' = after.rels
     /\ nextId' = IF tx.failed THEN nextId ELSE tx.nid
     /\ last' = [op |-> op, outcome |-> Outcome(tx),
                 storeThrew |-> tx.failAt # 0, dirty |-> tx.dirty,
                 input |-> IF tx.failed THEN <<>> ELSE input,
                 results |-> IF tx.failed \/ input = <<>> THEN <<>>
                             ELSE tx.results,
                 embedsInTransaction |-> tx.embeds]
     /\ UNCHANGED <<clock, embeddingService, vectorInitialized, decayConfig,
                 calls, process, files, localEmbedding, router>>

\* a handler that returns before it opens a transaction
ReturnEarly(op) ==
  /\ last' = [op |-> op, outcome |-> "ok", storeThrew |-> FALSE,
              dirty |-> FALSE, input |-> <<>>, results |-> <<>>,
              embedsInTransaction |-> 0]
  /\ UNCHANGED <<entities, relations, clock, nextId, embeddingService,
                 vectorInitialized, decayConfig,
                 calls, process, files, localEmbedding, router>>

\* keep: whether last remembers the batch and the entities it returned
CreateEntitiesCall(batches, fails, cap, keep) ==
  \E batch \in batches, failAt \in fails :
    IF batch = <<>> THEN failAt = 0 /\ ReturnEarly("createEntities")
    ELSE Finish("createEntities",
                Commit(CreateEntitiesLoop(BeginTransaction(failAt), batch, clock)),
                IF keep THEN batch ELSE <<>>, cap)

CreateEntities(batches, fails, cap) ==
  CreateEntitiesCall(batches, fails, cap, FALSE)

\* keep: whether last remembers the batch and the relations it created
CreateRelationsCall(batches, fails, cap, keep) ==
  \E batch \in batches, failAt \in fails :
    IF batch = <<>> THEN failAt = 0 /\ ReturnEarly("createRelations")
    ELSE Finish("createRelations",
                Commit(CreateRelationsLoop(BeginTransaction(failAt), batch, clock)),
                IF keep THEN batch ELSE <<>>, cap)

CreateRelations(batches, fails, cap) ==
  CreateRelationsCall(batches, fails, cap, FALSE)

AddObservations(batches, fails, cap) ==
  \E batch \in batches, failAt \in fails, pick \in Picks :
    IF batch = <<>> THEN failAt = 0 /\ pick = "lo" /\ ReturnEarly("addObservations")
    ELSE Finish("addObservations",
                Commit(AddObservationsLoop(BeginTransaction(failAt), batch,
                                           pick, clock)),
                batch, cap)

\* keep: whether last remembers the batch
DeleteObservationsCall(batches, fails, cap, keep) ==
  \E batch \in batches, failAt \in fails, pick \in Picks :
    IF batch = <<>> THEN failAt = 0 /\ pick = "lo"
                         /\ ReturnEarly("deleteObservations")
    ELSE Finish("deleteObservations",
                Commit(DeleteObservationsLoop(BeginTransaction(failAt), batch,
                                              pick, clock)),
                IF keep THEN batch ELSE <<>>, cap)

DeleteObservations(batches, fails, cap) ==
  DeleteObservationsCall(batches, fails, cap, FALSE)

DeleteEntities(fails) ==
  \E entityNames \in SUBSET Names, failAt \in fails :
    IF entityNames = {} THEN failAt = 0 /\ ReturnEarly("deleteEntities")
    ELSE Finish("deleteEntities",
                Commit(DeleteEntitiesRun(BeginTransaction(failAt), entityNames)),
                <<>>, nextId)

DeleteRelations(batches, fails) ==
  \E batch \in batches, failAt \in fails :
    IF batch = <<>> THEN failAt = 0 /\ ReturnEarly("deleteRelations")
    ELSE Finish("deleteRelations",
                Commit(DeleteRelationsLoop(BeginTransaction(failAt), batch)),
                <<>>, nextId)

\* getEntity runs before the transaction; no current row: it throws
UpdateEntityEmbedding(embs, fails) ==
  \E entityName \in Names, vector \in embs, failAt \in fails :
    LET tx == BeginTransaction(failAt)
    IN IF CurrentByName(entities, entityName) = {}
       THEN failAt = 0
            /\ Finish("updateEntityEmbedding", [tx EXCEPT !.failed = TRUE],
                      <<>>, nextId)
       ELSE Finish("updateEntityEmbedding",
                   Commit(UpdateEntityEmbeddingRun(tx, entityName, vector)),
                   <<>>, nextId)

\* updates: the relations callers pass; keep: whether last remembers the one
\* that was passed
UpdateRelationCall(updates, fails, cap, keep) ==
  \E relation \in updates, failAt \in fails, pick \in Picks :
    Finish("updateRelation",
           Commit(UpdateRelationRun(BeginTransaction(failAt), relation, pick,
                                    clock)),
           IF keep THEN <<relation>> ELSE <<>>, cap)

UpdateRelation(fails, cap) ==
  UpdateRelationCall(RelationUpdates, fails, cap, FALSE)

\* Date.now() moves on
TickTo(maxClock) ==
  /\ clock < maxClock
  /\ clock' = clock + 1
  /\ UNCHANGED <<entities, relations, nextId, embeddingService,
                 vectorInitialized, decayConfig, calls, process, files, localEmbedding, router, last>>

Tick == TickTo(MaxClock)

\* the calls in flight: none
NoCalls == {}

\* process.env and process.cwd() of a provider started with none of the
\* variables set ("" stands for a variable that is unset or empty), and a
\* file system without configuration files
DefaultProcess ==
  [env |-> [MOCK_EMBEDDINGS |-> "", EMBEDDING_PROVIDER |-> "",
            OPENAI_API_KEY |-> "", NEO4J_DATABASE |-> <<>>],
   cwd |-> <<"/">>]
NoFiles == {}

\* the router process before main() runs, and its child: pc is the place of
\* main ("main", then "spawned", "listening" once child.on(...) has run and
\* "running" once main has returned), or "exited" after process.exit and
\* "killed" after a signal has ended the process; child is "none",
\* "running", "ended" or "error" (it could not be spawned); code and signal
\* are those the child ended with, Undef and "null" for null; handlers are
\* the signals process.on has a listener for, received the signals
\* delivered to the router, pending those whose listener has yet to run,
\* forwarded those passed to child.kill while the child ran
NoRouter ==
  [pc |-> "main", child |-> "none", code |-> Undef, signal |-> "null",
   handlers |-> {}, received |-> {}, pending |-> {}, forwarded |-> {},
   exit |-> Undef]

\* new LocalEmbeddingService(): no extractor, no initPromise; loads counts
\* the calls of pipeline()
NewLocalEmbeddingService ==
  [extractor |-> FALSE, initPromise |-> "null", loads |-> 0]

\* decayConfig without options: enabled, a half-life of 30 days, a floor of 0.1
DefaultDecayConfig == [enabled |-> TRUE, halfLifeDays |-> 30, minConfidence |-> 10]

\* the provider right after its constructor: an empty store; the embedding
\* service is there unless creating it threw; configs are the decayConfig
\* options callers construct it with
ConstructIn(configs, processes, fileSystems) ==
  /\ decayConfig \in configs
  /\ calls = NoCalls
  /\ process \in processes
  /\ files \in fileSystems
  /\ localEmbedding = NewLocalEmbeddingService
  /\ router = NoRouter
  /\ entities = {}
  /\ relations = {}
  /\ clock = 1
  /\ nextId = 1
  /\ embeddingService \in BOOLEAN
  /\ vectorInitialized = FALSE
  /\ last = [op |-> "new", outcome |-> "ok", storeThrew |-> FALSE,
             dirty |-> FALSE, input |-> <<>>, results |-> <<>>,
             embedsInTransaction |-> 0]

\* the provider in a process with no variable set
Construct(configs) == ConstructIn(configs, {DefaultProcess}, {NoFiles})

Init == Construct({DefaultDecayConfig})

(***************************************************************************)
(* Spec: the write operations on entities and relations.                   *)
(***************************************************************************)
Next ==
  \/ CreateEntities(WriteEntityBatches, NoFailure, MaxId)
  \/ CreateRelations(RelationBatches, NoFailure, MaxId)
  \/ AddObservations(ObservationBatches, NoFailure, MaxId)
  \/ DeleteObservations(DeletionBatches, NoFailure, MaxId)
  \/ UpdateRelation(NoFailure, MaxId)

Spec == Init /\ [][Next]_vars

(***************************************************************************)
(* SpecEntities: the operations that write entity rows only.               *)
(***************************************************************************)
NextEntities ==
  \/ CreateEntities(WriteEntityBatches, NoFailure, MaxId)
  \/ AddObservations(ObservationBatches, NoFailure, MaxId)
  \/ DeleteObservations(DeletionBatches, NoFailure, MaxId)
  \/ UpdateEntityEmbedding({1}, NoFailure)
  \/ DeleteEntities(NoFailure)

SpecEntities == Init /\ [][NextEntities]_vars

(***************************************************************************)
(* SpecFault: the versioning writes with a store that may throw at any of  *)
(* the first MaxFail statements of a transaction.                          *)
(***************************************************************************)
NextFault ==
  \/ CreateEntities(FaultEntityBatches, FailPoints, MaxFaultId)
  \/ CreateRelations(FaultRelationBatches, FailPoints, MaxFaultId)
  \/ AddObservations(FaultObservationBatches, FailPoints, MaxFaultId)
  \/ DeleteObservations(FaultDeletionBatches, FailPoints, MaxFaultId)
  \/ UpdateRelation(FailPoints, MaxFaultId)
  \/ Tick

SpecFault == Init /\ [][NextFault]_vars

(***************************************************************************)
(* The version store                                                       *)
(***************************************************************************)
\* every name has at most one entity row with validTo null
UniqueCurrentNames ==
  \A n \in Names : Cardinality(CurrentByName(entities, n)) <= 1

\* C1: at any moment there is at most one current row per entity name,
\* also after createEntities was called with a name that already has one.
C1_OneCurrentEntityPerName ==
  \A n \in Names : Cardinality(CurrentByName(entities, n)) <= 1

\* C2: at any moment there is at most one current relation row per
\* (from, to, relationType), whatever createRelations, updateRelation and
\* addObservations did before.  Stated for the stores in which every name
\* has one current entity row, so that a violation does not rest on
\* duplicated entity rows.
C2_OneCurrentRelationPerKey ==
  UniqueCurrentNames =>
    \A f \in Names, t \in Names, ty \in RelTypes :
      Cardinality(CurrentRelations(entities, relations, f, t, ty)) <= 1

\* C3: every current relation row connects two current entity rows.  Stated
\* for the stores in which every name has one current entity row.
C3_CurrentRelationsJoinCurrentRows ==
  UniqueCurrentNames =>
    \A r \in relations :
      r.validTo = Null =>
        /\ EntityById(entities, r.fromId).validTo = Null
        /\ EntityById(entities, r.toId).validTo = Null

C5_AddObservationsIdempotent ==
  [][(/\ last.op = "addObservations"
      /\ last.outcome = "ok"
      /\ last.input # <<>>
      /\ last'.op = "addObservations"
      /\ last'.outcome = "ok"
      /\ last'.input = last.input)
     => /\ entities' = entities
        /\ relations' = relations
        /\ \A i \in DOMAIN last'.results : last'.results[i][2] = <<>>]_vars

(***************************************************************************)
(* SpecSearch: a small store and the searches without a query vector.      *)
(***************************************************************************)
Queries == {"A", "x"}
Limits == {Undef, 50, 100}
\* the empty list stands for an absent entityTypes too: the code reads both
\* as no filter
TypeFilters == {<<>>, <<"t1">>}
MinSimilarities == {Undef, 0, 50}

\* What the embedding service and the store answer during one call.
\* init: vectorStore.initialize() succeeds; embed: the vector the embedding
\* service returns for the query, or Fail; index: the direct index query
\* answers; fallback: the query of findSimilarEntities answers; nullRead: see
\* FindSimilarEntities; order: the order of the store's result sets.
\* An answer nobody asks for during the call is fixed.
Inits(outcomes) == IF vectorInitialized THEN {TRUE} ELSE outcomes
Embeds(options) ==
  IF options.queryVector = Undef /\ embeddingService THEN {1, Fail} ELSE {1}
IndexAnswers(options, answers) ==
  IF options.queryVector # Undef THEN answers ELSE {TRUE}
FallbackAnswers(index) == IF index THEN {TRUE} ELSE BOOLEAN
NullReads(index, fallback) ==
  IF ~index /\ fallback THEN {Null, Undef} ELSE {Null}
Orders == IF Cardinality(entities) < 2 THEN {"lo"} ELSE {"lo", "hi"}

\* the inputs the call reads: the query text without a query vector,
\* minSimilarity with one
QueriesRead(queryVector) == IF queryVector = Undef THEN Queries ELSE {"x"}
MinSimilaritiesRead(queryVector, minSimilarities) ==
  IF queryVector = Undef THEN {Undef} ELSE minSimilarities

Answer(op, query, options, env, steps, graph) ==
  [op |-> op, outcome |-> "ok", storeThrew |-> FALSE, dirty |-> FALSE,
   input |-> <<>>, results |-> <<>>, query |-> query, options |-> options,
   env |-> env, steps |-> steps, graph |-> graph]

\* in: the sets a specification draws the inputs and the answers of the call
\* from: queryVectors, limits, entityTypes, minSimilarities, inits (outcomes
\* of vectorStore.initialize()) and indexes (answers of the index query)
SemanticSearch(in) ==
  \E queryVector \in in.queryVectors, limit \in in.limits,
     entityTypes \in in.entityTypes :
  \E query \in QueriesRead(queryVector),
     minSimilarity \in MinSimilaritiesRead(queryVector, in.minSimilarities) :
    LET options == [limit |-> limit, entityTypes |-> entityTypes,
                    queryVector |-> queryVector,
                    minSimilarity |-> minSimilarity]
    IN \E init \in Inits(in.inits), embed \in Embeds(options),
          index \in IndexAnswers(options, in.indexes), order \in Orders :
       \E fallback \in FallbackAnswers(index) :
       \E nullRead \in NullReads(index, fallback) :
         LET env == [init |-> init, embed |-> embed, index |-> index,
                     fallback |-> fallback, nullRead |-> nullRead,
                     order |-> order]
             run == SemanticSearchRun(entities, relations, embeddingService,
                                      query, options, env)
         IN /\ last' = Answer("semanticSearch", query, options, env,
                              <<"start">> \o run.steps, run.graph)
            /\ vectorInitialized' = (vectorInitialized \/ init)
            /\ UNCHANGED <<entities, relations, clock, nextId,
                           embeddingService, decayConfig,
                 calls, process, files, localEmbedding, router>>

SearchNodesCall(in) ==
  \E query \in Queries, limit \in in.limits, entityTypes \in in.entityTypes,
     order \in Orders :
    LET options == [limit |-> limit, entityTypes |-> entityTypes,
                    queryVector |-> Undef, minSimilarity |-> Undef]
        env == [init |-> TRUE, embed |-> 1, index |-> TRUE, fallback |-> TRUE,
                nullRead |-> Null, order |-> order]
    IN /\ last' = Answer("searchNodes", query, options, env, <<>>,
                         SearchNodes(entities, relations, query, options, order))
       /\ UNCHANGED <<entities, relations, clock, nextId, embeddingService,
                      vectorInitialized, decayConfig,
                 calls, process, files, localEmbedding, router>>

OpenNodesCall ==
  \E names \in SUBSET Names, order \in Orders :
    LET options == [limit |-> Undef, entityTypes |-> <<>>,
                    queryVector |-> Undef, minSimilarity |-> Undef]
        env == [init |-> TRUE, embed |-> 1, index |-> TRUE, fallback |-> TRUE,
                nullRead |-> Null, order |-> order]
    IN /\ last' = Answer("openNodes", names, options, env, <<>>,
                         OpenNodes(entities, relations, names, order))
       /\ UNCHANGED <<entities, relations, clock, nextId, embeddingService,
                      vectorInitialized, decayConfig,
                 calls, process, files, localEmbedding, router>>

\* semanticSearch without a query vector
LexicalInputs ==
  [queryVectors |-> {Undef}, limits |-> Limits, entityTypes |-> TypeFilters,
   minSimilarities |-> {Undef}, inits |-> BOOLEAN, indexes |-> {TRUE}]
\* semanticSearch with a supplied query vector
VectorInputs ==
  [queryVectors |-> {1}, limits |-> Limits, entityTypes |-> TypeFilters,
   minSimilarities |-> MinSimilarities, inits |-> {TRUE}, indexes |-> BOOLEAN]

SearchEntityBatches == BatchesUpTo(EntityItems(Types, {2, 3}), MaxSearchBatch)
SearchRelationBatches == BatchesUpTo(RelationItems, MaxSearchBatch)
SearchObservationBatches ==
  BatchesUpTo([entityName : Names, contents : {<<"y">>}], MaxSearchBatch)

NextSearch ==
  \/ CreateEntities(SearchEntityBatches, NoFailure, MaxSearchId)
  \/ CreateRelations(SearchRelationBatches, NoFailure, MaxSearchId)
  \/ AddObservations(SearchObservationBatches, NoFailure, MaxSearchId)
  \/ SearchNodesCall(LexicalInputs)
  \/ SemanticSearch(LexicalInputs)

SpecSearch == Init /\ [][NextSearch]_vars

(***************************************************************************)
(* SpecVector: the same store and semanticSearch with a supplied vector,    *)
(* the vector store initializing without error.                            *)
(***************************************************************************)
NextVector ==
  \/ CreateEntities(SearchEntityBatches, NoFailure, MaxSearchId)
  \/ CreateRelations(SearchRelationBatches, NoFailure, MaxSearchId)
  \/ AddObservations(SearchObservationBatches, NoFailure, MaxSearchId)
  \/ SemanticSearch(VectorInputs)

SpecVector == Init /\ [][NextVector]_vars

(***************************************************************************)
(* SpecHydrate: entities with relations between them, and the three reads  *)
(* that return a graph.                                                    *)
(***************************************************************************)
HydrateInputs ==
  [queryVectors |-> {Undef, 1}, limits |-> {Undef, 100},
   entityTypes |-> {<<>>}, minSimilarities |-> {Undef}, inits |-> {TRUE},
   indexes |-> {TRUE}]

HydrateEntityBatches == BatchesUpTo(EntityItems({"t1"}, {2}), MaxHydrateBatch)
HydrateRelationBatches == BatchesUpTo(RelationItems, MaxHydrateBatch)
HydrateObservationBatches ==
  BatchesUpTo([entityName : Names, contents : {<<"y">>}], MaxHydrateBatch)

NextHydrate ==
  \/ CreateEntities(HydrateEntityBatches, NoFailure, MaxHydrateId)
  \/ CreateRelations(HydrateRelationBatches, NoFailure, MaxHydrateId)
  \/ AddObservations(HydrateObservationBatches, NoFailure, MaxHydrateId)
  \/ SearchNodesCall(HydrateInputs)
  \/ OpenNodesCall
  \/ SemanticSearch(HydrateInputs)

SpecHydrate == Init /\ [][NextHydrate]_vars

(***************************************************************************)
(* Retrieval orchestration                                                 *)
(***************************************************************************)
\* C6: a semanticSearch call without queryVector, with an embedding service
\* whose embedding of the query succeeds, runs the vector-index lookup with
\* the generated vector and returns that lookup's hydrated graph.
C6_GeneratedVectorIsSearched ==
  (/\ last.op = "semanticSearch"
   /\ last.options.queryVector = Undef
   /\ embeddingService
   /\ last.env.embed # Fail)
  => /\ "vectorSearch" \in SeqToSet(last.steps)
     /\ last.graph =
          VectorSearch(entities, relations,
                       [last.options EXCEPT !.queryVector = last.env.embed],
                       last.env).graph

\* C7: when the embedding service throws while embedding the query, the call
\* raises no error and returns the graph of searchNodes for the same query
\* text, limit and entityTypes.
C7_EmbedFailureGivesSearchNodes ==
  (/\ last.op = "semanticSearch"
   /\ last.options.queryVector = Undef
   /\ embeddingService
   /\ last.env.embed = Fail)
  => /\ last.outcome = "ok"
     /\ last.graph = SearchNodes(entities, relations, last.query, last.options,
                                 last.env.order)

\* C8: a call with a query vector whose direct index query fails raises no
\* error and returns the graph of searchNodes for the query text.
C8_IndexFailureGivesSearchNodes ==
  (/\ last.op = "semanticSearch"
   /\ last.options.queryVector # Undef
   /\ ~last.env.index)
  => /\ last.outcome = "ok"
     /\ last.graph = SearchNodes(entities, relations, last.query, last.options,
                                 last.env.order)

\* C9: without an embedding service and without queryVector, semanticSearch
\* returns the entities and relations of searchNodes for the same query and
\* options, for every limit and entityTypes filter.
C9_NoServiceEqualsSearchNodes ==
  (/\ last.op = "semanticSearch"
   /\ last.options.queryVector = Undef
   /\ ~embeddingService)
  => last.graph = SearchNodes(entities, relations, last.query, last.options,
                              last.env.order)

\* C10: on the vector path whose index query answers, an entity is returned
\* only if an index candidate of its name scored at least the supplied
\* minSimilarity (0.6 when none is supplied), and every current row among
\* the top-K candidates scoring at least that floor is returned.
C10_MinSimilarityIsTheFloor ==
  (/\ last.op = "semanticSearch"
   /\ last.options.queryVector # Undef
   /\ last.env.index)
  => LET floor == IF last.options.minSimilarity = Undef
                  THEN DefaultMinSimilarity
                  ELSE last.options.minSimilarity
         k == Floor(OrDefault(last.options.limit, DefaultLimit * Scale))
                \div Scale
         candidates == QueryNodes(entities, k, last.options.queryVector,
                                  last.env.order)
         scored(c) == Score(last.options.queryVector, c.embedding)
         returned == last.graph.entities
     IN /\ \A i \in DOMAIN returned :
             \E j \in DOMAIN candidates :
               /\ candidates[j].name = returned[i].name
               /\ scored(candidates[j]) >= floor
        /\ \A j \in DOMAIN candidates :
             (candidates[j].validTo = Null /\ scored(candidates[j]) >= floor)
               => \E i \in DOMAIN returned : returned[i].id = candidates[j].id

\* C11: a vector-path semanticSearch with a non-empty entityTypes list
\* returns only entities whose entityType is in the list, on the direct
\* index query and on the findSimilarEntities path.
C11_EntityTypesFilterVectorPath ==
  (/\ last.op = "semanticSearch"
   /\ last.options.queryVector # Undef
   /\ Len(last.options.entityTypes) > 0)
  => \A i \in DOMAIN last.graph.entities :
       last.graph.entities[i].entityType \in SeqToSet(last.options.entityTypes)

\* C12: the entities of a vector-path result are in descending order of the
\* score of the index candidate of their name, whatever the order in which
\* the store returns the rows of the by-name read.
C12_VectorResultOrderedByScore ==
  (/\ last.op = "semanticSearch"
   /\ last.options.queryVector # Undef
   /\ last.env.index)
  => LET k == Floor(OrDefault(last.options.limit, DefaultLimit * Scale))
                \div Scale
         candidates == QueryNodes(entities, k, last.options.queryVector,
                                  last.env.order)
         best(name) ==
           CHOOSE v \in 0 .. Scale :
             /\ \E j \in DOMAIN candidates :
                  /\ candidates[j].name = name
                  /\ Score(last.options.queryVector, candidates[j].embedding) = v
             /\ \A j \in DOMAIN candidates :
                  candidates[j].name = name
                    => Score(last.options.queryVector, candidates[j].embedding) <= v
         returned == last.graph.entities
     IN \A i \in DOMAIN returned, j \in DOMAIN returned :
          i < j => best(returned[i].name) >= best(returned[j].name)

\* C13: in every graph returned by searchNodes, openNodes and semanticSearch
\* the relations are exactly the current relation rows whose from name and
\* to name are both names of returned entities.
C13_RelationsBetweenReturnedEntities ==
  last.op \in {"searchNodes", "openNodes", "semanticSearch"}
  => LET names == NamesOf(last.graph.entities)
     IN /\ {g.row : g \in last.graph.relations} =
             {<<r.id, r.fromId, r.toId>> :
                r \in {q \in relations :
                         /\ q.validTo = Null
                         /\ NameOfId(entities, q.fromId) \in names
                         /\ NameOfId(entities, q.toId) \in names}}
        /\ \A g \in last.graph.relations : g.from \in names /\ g.to \in names

\* a search returned one of two related entities: one current relation is in
\* the graph and another, leading outside it, is not
C13_Witness ==
  /\ last.op \in {"searchNodes", "semanticSearch"}
  /\ Len(last.graph.entities) > 0
  /\ last.graph.relations # {}
  /\ \E r \in relations :
       /\ r.validTo = Null
       /\ NameOfId(entities, r.fromId) \in NamesOf(last.graph.entities)
       /\ NameOfId(entities, r.toId) \notin NamesOf(last.graph.entities)

(***************************************************************************)
(* SpecTime: every write of the provider, deleteEntities and               *)
(* deleteRelations included, with a clock that moves between calls and     *)
(* callers that may pass a validFrom of their own to createEntities.       *)
(***************************************************************************)
\* none, or an instant the clock has not reached
ValidFroms == {Undef, MaxClock + 1}
TimeEntityBatches ==
  BatchesUpTo(TimedEntityItems({"t1"}, {1}, ValidFroms), MaxTimeBatch)
TimeRelationBatches == BatchesUpTo(RelationItems, MaxTimeBatch)
TimeObservationBatches == BatchesUpTo(ObservationItems, MaxTimeBatch)
TimeDeletionBatches == BatchesUpTo(DeletionItems, MaxTimeBatch)

NextTime ==
  \/ CreateEntities(TimeEntityBatches, NoFailure, MaxTimeId)
  \/ CreateRelations(TimeRelationBatches, NoFailure, MaxTimeId)
  \/ AddObservations(TimeObservationBatches, NoFailure, MaxTimeId)
  \/ DeleteObservations(TimeDeletionBatches, NoFailure, MaxTimeId)
  \/ UpdateRelation(NoFailure, MaxTimeId)
  \/ DeleteEntities(NoFailure)
  \/ DeleteRelations(TimeRelationBatches, NoFailure)
  \/ Tick

SpecTime == Init /\ [][NextTime]_vars

WriteOps == {"createEntities", "createRelations", "addObservations",
             "deleteObservations", "updateRelation", "deleteEntities",
             "deleteRelations"}

\* getGraphAtTime(timestamp) and loadGraph return the same entity versions
\* and the same relations
SameAsLoadGraph(ents, rels, timestamp) ==
  LET atTime == GetGraphAtTime(ents, rels, timestamp, "lo")
      loaded == LoadGraph(ents, rels, "lo")
  IN /\ SeqToSet(atTime.entities) = SeqToSet(loaded.entities)
     /\ atTime.relations = loaded.relations

\* C14: a successful write, the clock standing still, leaves a store on
\* which getGraphAtTime(now) returns the entity versions and the relations
\* that loadGraph returns
C14_GraphAtNowIsLoadGraph ==
  [][(/\ clock' = clock
      /\ last'.op \in WriteOps
      /\ last'.outcome = "ok")
     => SameAsLoadGraph(entities', relations', clock')]_vars

\* C15: no write calls the embedding service between beginTransaction and
\* the commit or rollback of its transaction; createEntities has generated
\* every embedding before its transaction begins
C15_NoEmbeddingCallInTransaction ==
  last.op \in WriteOps => last.embedsInTransaction = 0

(***************************************************************************)
(* SpecDecay: relations created with a confidence and updated with a       *)
(* strength, a clock that runs for two half-lives, and getDecayedGraph.    *)
(***************************************************************************)
\* a half-life of one day, the floor 0.1; decay switched on or off
DecayConfigs == [enabled : BOOLEAN, halfLifeDays : {1}, minConfidence : {10}]
\* no confidence, one under the floor, and 0.8
Confidences == {Undef, 4, 80}
DecayEntityBatches == BatchesUpTo(EntityItems({"t1"}, {1}), MaxDecayBatch)
DecayRelationBatches ==
  BatchesUpTo(RatedRelationItems(Confidences), MaxDecayBatch)

GetDecayedGraphCall ==
  \E order \in Orders :
    /\ last' = [op |-> "getDecayedGraph", outcome |-> "ok",
                storeThrew |-> FALSE, dirty |-> FALSE, input |-> <<>>,
                results |-> <<>>, startTime |-> clock,
                graph |-> GetDecayedGraph(entities, relations, decayConfig,
                                          clock, order)]
    /\ UNCHANGED <<entities, relations, clock, nextId, embeddingService,
                   vectorInitialized, decayConfig,
                 calls, process, files, localEmbedding, router>>

InitDecay == Construct(DecayConfigs)

NextDecay ==
  \/ CreateEntities(DecayEntityBatches, NoFailure, MaxDecayId)
  \/ CreateRelations(DecayRelationBatches, NoFailure, MaxDecayId)
  \/ UpdateRelation(NoFailure, MaxDecayId)
  \/ TickTo(MaxDecayClock)
  \/ GetDecayedGraphCall

SpecDecay == InitDecay /\ [][NextDecay]_vars

\* the stored row a returned relation was read from
StoredRelation(relation) ==
  CHOOSE r \in relations : <<r.id, r.fromId, r.toId>> = relation.row

\* the returned relations that carry a confidence, decay being enabled
DecayedRelations ==
  IF last.op = "getDecayedGraph" /\ decayConfig.enabled
  THEN {relation \in last.graph.relations : relation.confidence # Undef}
  ELSE {}

\* age of a returned relation in half-lives: now - validFrom
HalfLives(relation) ==
  (last.startTime - StoredRelation(relation).validFrom)
    \div (decayConfig.halfLifeDays * DayMs)

\* C16: a relation stored with confidence c0 is returned by getDecayedGraph
\* with c0/2 one half-life after its validFrom and with c0/4 two half-lives
\* after it, whenever that value is at least minConfidence
C16_ConfidenceHalvesPerHalfLife ==
  \A relation \in DecayedRelations :
    LET c0 == StoredRelation(relation).confidence
    IN /\ (HalfLives(relation) = 1 /\ c0 \div 2 >= decayConfig.minConfidence)
            => relation.confidence = c0 \div 2
       /\ (HalfLives(relation) = 2 /\ c0 \div 4 >= decayConfig.minConfidence)
            => relation.confidence = c0 \div 4

\* the confidence getDecayedGraph computes at instant t for a stored row
DecayedAt(r, t) ==
  (ApplyDecay(RelationshipToRelation(entities, r), decayConfig, t)).confidence

\* C17: the confidence getDecayedGraph returns for a relation never grows as
\* the relation ages, and is never below minConfidence
C17_DecayMonotoneAndFloored ==
  /\ \A relation \in DecayedRelations :
       relation.confidence >= decayConfig.minConfidence
  /\ \A r \in {q \in relations : q.validTo = Null /\ q.confidence # Undef} :
       \A t1, t2 \in r.validFrom .. MaxDecayClock :
         t1 <= t2 => /\ DecayedAt(r, t2) <= DecayedAt(r, t1)
                     /\ DecayedAt(r, t2) >= decayConfig.minConfidence

\* getDecayedGraph has answered for a relation stored with a confidence
\* under the floor, one half-life or more after its validFrom
C17_Witness ==
  \E relation \in DecayedRelations :
    /\ HalfLives(relation) >= 1
    /\ StoredRelation(relation).confidence < decayConfig.minConfidence

\* C18: getDecayedGraph writes nothing to the store, returns every relation
\* with the strength its row holds, and answers two calls made at the same
\* instant with the same entities and relations
C18_DecayedGraphReadsOnly ==
  [][(/\ last'.op = "getDecayedGraph"
      /\ last' # last)
     => /\ entities' = entities /\ relations' = relations
        /\ \A relation \in last'.graph.relations :
             relation.strength = StoredRelation(relation).strength
        /\ (last.op = "getDecayedGraph" /\ last.startTime = last'.startTime)
             => /\ SeqToSet(last'.graph.entities) = SeqToSet(last.graph.entities)
                /\ last'.graph.relations = last.graph.relations]_vars

\* getDecayedGraph has answered, after time has passed, with a relation that
\* holds a strength and a confidence
C18_Witness ==
  \E relation \in DecayedRelations :
    /\ HalfLives(relation) >= 1
    /\ relation.strength # Undef

(***************************************************************************)
(* SpecSkip: batches of relations and of observations some of whose items  *)
(* name entities the store does not hold, entities being created,          *)
(* versioned and deleted in between.                                       *)
(***************************************************************************)
SkipEntityBatches == BatchesUpTo(EntityItems({"t1"}, {1}), 1)
SkipRelationBatches == BatchesUpTo(RelationItems, MaxSkipBatch)
SkipObservationBatches == BatchesUpTo(ObservationItems, MaxSkipBatch)

NextSkip ==
  \/ CreateEntities(SkipEntityBatches, NoFailure, MaxSkipId)
  \/ CreateRelationsCall(SkipRelationBatches, NoFailure, MaxSkipId, TRUE)
  \/ AddObservations(SkipObservationBatches, NoFailure, MaxSkipId)
  \/ UpdateRelation(NoFailure, MaxSkipId)
  \/ DeleteEntities(NoFailure)

SpecSkip == Init /\ [][NextSkip]_vars

\* both names of the item have a current entity row
EndpointsExist(ents, relation) ==
  /\ CurrentByName(ents, relation.from) # {}
  /\ CurrentByName(ents, relation.to) # {}

\* the rows of rels that join the names of the item with its relationType
RowsOfItem(ents, rels, relation) ==
  {r \in rels : /\ NameOfId(ents, r.fromId) = relation.from
                /\ NameOfId(ents, r.toId) = relation.to
                /\ r.relationType = relation.relationType}

\* every relation row joins two stored entity rows
EndpointsStored(ents, rels) ==
  \A r \in rels : \E f, t \in ents : f.id = r.fromId /\ t.id = r.toId

\* C19: createRelations raises no error for an item whose from or to name
\* has no current entity row and creates no relation row for it, creates a
\* row for every other item of the batch, and no relation row is ever left
\* with an endpoint that is not a stored entity row
C19_MissingEndpointIsSkipped ==
  [][/\ EndpointsStored(entities', relations')
     /\ last'.op = "createRelations"
          => /\ last'.outcome = "ok"
             /\ \A i \in DOMAIN last'.input :
                  EndpointsExist(entities, last'.input[i])
                    <=> RowsOfItem(entities', relations' \ relations,
                                   last'.input[i]) # {}]_vars

\* createRelations has returned from a batch of two items of which it
\* created one and skipped the other
C19_Witness ==
  /\ last.op = "createRelations"
  /\ Len(last.input) = 2
  /\ Len(last.results) = 1
  /\ \E i \in DOMAIN last.input : ~EndpointsExist(entities, last.input[i])

\* some current row of the name holds every content of the item
Applied(ents, obs) ==
  \E e \in CurrentByName(ents, obs.entityName) :
    SeqToSet(obs.contents) \subseteq SeqToSet(e.observations)

\* C20: updateRelation on a store with no current relation row, so that its
\* key has none, returns without an error and leaves every row as it was;
\* addObservations raises no error for an item that names an entity with no
\* current row, writes no row for it, and applies the other items
C20_NotFoundIsSkipped ==
  [][/\ (last'.op = "updateRelation"
         /\ {r \in relations : r.validTo = Null} = {})
          => /\ last'.outcome = "ok"
             /\ entities' = entities /\ relations' = relations
     /\ last'.op = "addObservations"
          => /\ last'.outcome = "ok"
             /\ \A i \in DOMAIN last'.input :
                  IF CurrentByName(entities, last'.input[i].entityName) = {}
                  THEN RowsByName(entities', last'.input[i].entityName)
                         = RowsByName(entities, last'.input[i].entityName)
                  ELSE Applied(entities', last'.input[i])]_vars

(***************************************************************************)
(* SpecUpdate: relations between the versions of entities, updated with    *)
(* and without a strength (0 too), a confidence and metadata, while the    *)
(* clock moves.                                                            *)
(***************************************************************************)
\* metadata is an object callers pass or leave out; 7 stands for one
SuppliedUpdates ==
  [from : Names, to : Names, relationType : RelTypes, strength : {Undef, 0, 50},
   confidence : {Undef, 30}, metadata : {Undef, 7}]
UpdateEntityBatches == BatchesUpTo(EntityItems({"t1"}, {1}), MaxUpdateBatch)
UpdateRelationBatches == BatchesUpTo(RelationItems, MaxUpdateBatch)

NextUpdate ==
  \/ CreateEntities(UpdateEntityBatches, NoFailure, MaxUpdateId)
  \/ CreateRelations(UpdateRelationBatches, NoFailure, MaxUpdateId)
  \/ UpdateRelationCall(SuppliedUpdates, NoFailure, MaxUpdateId, TRUE)
  \/ Tick

SpecUpdate == Init /\ [][NextUpdate]_vars

\* the rows a step has added to the relations
NewRelations == {r \in relations' : \A q \in relations : q.id # r.id}

\* C21: a successful updateRelation on a key with a current row leaves that
\* row with validTo = now and a new current row of the key with the next
\* version, validFrom = now, the createdAt of the previous row, and of
\* strength, confidence and metadata the value that was passed (0 too) or,
\* when none was, the value of the previous row
C21_UpdateRelationCarriesForward ==
  [][(clock' = clock /\ last'.op = "updateRelation" /\ last'.outcome = "ok")
     => LET relation == last'.input[1]
        IN \E previous \in CurrentRelations(entities, relations, relation.from,
                                            relation.to, relation.relationType) :
             /\ [previous EXCEPT !.validTo = clock] \in relations'
             /\ NewRelations # {}
             /\ \A r \in NewRelations :
                  /\ NameOfId(entities, r.fromId) = relation.from
                  /\ NameOfId(entities, r.toId) = relation.to
                  /\ r.relationType = relation.relationType
                  /\ r.version = previous.version + 1
                  /\ r.validFrom = clock /\ r.validTo = Null
                  /\ r.createdAt = previous.createdAt
                  /\ r.strength = IF relation.strength # Undef
                                  THEN relation.strength ELSE previous.strength
                  /\ r.confidence = IF relation.confidence # Undef
                                    THEN relation.confidence
                                    ELSE previous.confidence
                  /\ r.metadata = IF relation.metadata # Undef
                                  THEN relation.metadata
                                  ELSE previous.metadata]_vars

\* updateRelation has replaced a row that held a strength, a confidence and
\* metadata by one that holds strength 0 and the confidence and metadata of
\* the replaced row
C21_Witness ==
  /\ last.op = "updateRelation" /\ last.outcome = "ok"
  /\ last.input[1].strength = 0
  /\ last.input[1].confidence = Undef /\ last.input[1].metadata = Undef
  /\ \E r \in relations :
       /\ r.validTo = Null /\ r.version = 3
       /\ r.strength = 0 /\ r.confidence = 30 /\ r.metadata = 7

(***************************************************************************)
(* SpecHistory: the writes that version rows, on the entities A and B and  *)
(* the relation from A to B, while the clock moves.  Entities are created  *)
(* and lose observations among the first MaxHistoryEntityId uuids,         *)
(* relations are created among the first MaxHistoryRelationId.             *)
(***************************************************************************)
HistoryEntityBatches == BatchesUpTo(EntityItems({"t1"}, {1}), MaxHistoryBatch)
HistoryRelations == {relation \in RelationItems :
                       relation.from = "A" /\ relation.to = "B"}
HistoryRelationBatches == BatchesUpTo(HistoryRelations, MaxHistoryBatch)
HistoryUpdates == {relation \in RelationUpdates :
                     /\ relation.from = "A" /\ relation.to = "B"
                     /\ relation.strength = Undef}
HistoryObservationBatches ==
  BatchesUpTo({obs \in ObservationItems :
                 obs.entityName = "A" /\ obs.contents = <<"y">>},
              MaxHistoryBatch)
HistoryDeletionBatches ==
  BatchesUpTo({deletion \in DeletionItems : deletion.entityName = "A"},
              MaxHistoryBatch)

NextHistory ==
  \/ CreateEntities(HistoryEntityBatches, NoFailure, MaxHistoryEntityId)
  \/ CreateRelations(HistoryRelationBatches, NoFailure, MaxHistoryRelationId)
  \/ AddObservations(HistoryObservationBatches, NoFailure, MaxHistoryId)
  \/ DeleteObservations(HistoryDeletionBatches, NoFailure, MaxHistoryEntityId)
  \/ UpdateRelationCall(HistoryUpdates, NoFailure, MaxHistoryId, FALSE)
  \/ UpdateEntityEmbedding({2}, NoFailure)
  \/ Tick

SpecHistory == Init /\ [][NextHistory]_vars

\* C22: an entity row or a relation row with a validTo is left as it is, in
\* every field, by createEntities, createRelations, addObservations,
\* deleteObservations, updateRelation and updateEntityEmbedding
C22_HistoryRowsImmutable ==
  [][/\ \A e \in entities : e.validTo # Null => e \in entities'
     /\ \A r \in relations : r.validTo # Null => r \in relations']_vars

(***************************************************************************)
(* SpecEmbed: createEntities with an embedding service that may throw for  *)
(* any entity of the batch, and without one.                               *)
(***************************************************************************)
EmbedEntityBatches == BatchesUpTo(EntityItems({"t1"}, {1, Fail}), MaxEmbedBatch)

NextEmbed ==
  \/ CreateEntitiesCall(EmbedEntityBatches, NoFailure, MaxEmbedId, TRUE)
  \/ AddObservations(SkipObservationBatches, NoFailure, MaxEmbedId)
  \/ DeleteEntities(NoFailure)

SpecEmbed == Init /\ [][NextEmbed]_vars

\* the rows a step has added to the entities
NewEntities == {e \in entities' : \A x \in entities : x.id # e.id}

\* the store has no embedding for the item
NotEmbedded(entity) == ~embeddingService \/ entity.emb = Fail

\* C23: createEntities raises no error when the embedding service throws for
\* an entity or is not there; it creates one current row of version 1 for
\* every entity of the batch, without an embedding where none was generated,
\* and returns them all
C23_EmbeddingFailureIsNotFatal ==
  [][last'.op = "createEntities"
     => /\ last'.outcome = "ok"
        /\ Cardinality(NewEntities) = Len(last'.input)
        /\ [i \in DOMAIN last'.input |-> last'.input[i].name] = last'.results
        /\ \A i \in DOMAIN last'.input :
             \E e \in NewEntities :
               /\ e.name = last'.input[i].name
               /\ e.version = 1 /\ e.validTo = Null
               /\ e.observations = last'.input[i].observations
               /\ NotEmbedded(last'.input[i]) => e.embedding = NoEmb
               /\ ~NotEmbedded(last'.input[i])
                    => e.embedding = last'.input[i].emb]_vars

\* createEntities has returned two entities, the embedding service having
\* thrown for the first of them and answered for the second
C23_Witness ==
  /\ last.op = "createEntities" /\ embeddingService
  /\ Len(last.input) = 2 /\ Len(last.results) = 2
  /\ last.input[1].emb = Fail /\ last.input[2].emb = 1
  /\ \E e \in entities : e.name = last.input[1].name /\ e.embedding = NoEmb
                         /\ e.validTo = Null /\ e.version = 1

(***************************************************************************)
(* Calls that overlap.  A call in flight is a record of calls: pc is the   *)
(* await it has reached, the other fields are its locals.  The store       *)
(* commits one transaction at a time and holds the lock a transaction      *)
(* takes with its first SET until the commit, so the statements from       *)
(* Step 3 of addObservations to its commit are one step; a query that      *)
(* reads takes no lock and sees what is committed.                         *)
(***************************************************************************)
Writers == {"w1", "w2"}
Readers == {"r1"}
Started == {call.id : call \in calls}
CallOf(id) == CHOOSE call \in calls : call.id = id

Call(id, op, pc) ==
  [id |-> id, op |-> op, pc |-> pc, obs |-> <<>>, names |-> {}, node |-> <<>>,
   outgoing |-> {}, incoming |-> {}, entities |-> <<>>, before |-> EmptyGraph,
   after |-> EmptyGraph, graph |-> EmptyGraph]

\* addObservations, Step 1: getQuery reads the current row and its relations
LoadCurrentEntity(items) ==
  \E id \in Writers \ Started, obs \in items, pick \in Picks :
    LET cur == CurrentByName(entities, obs.entityName)
        e == FirstEntity(cur, pick)
    IN /\ cur # {}
       /\ calls' = calls \cup
            {[Call(id, "addObservations", "loaded") EXCEPT
                !.obs = <<obs>>, !.node = <<e>>,
                !.outgoing = {r \in relations :
                                r.fromId = e.id /\ r.validTo = Null},
                !.incoming = {r \in relations :
                                r.toId = e.id /\ r.validTo = Null}]}
       /\ UNCHANGED <<entities, relations, clock, nextId, embeddingService,
                      vectorInitialized, decayConfig, process, files, localEmbedding, router,
                      last>>

\* a close step that reads the current row of the name again
Reloaded(call, ents) ==
  LET cur == CurrentByName(ents, call.node[1].name)
  IN IF cur = {} THEN call.node[1] ELSE FirstEntity(cur, "lo")

\* currentNode: the row Step 1 has read, whatever was committed since
CurrentNode(call, ents) == call.node[1]

\* addObservations, Steps 2 to 5 and the commit
CloseAndRecreate(cap) ==
  \E call \in calls :
    LET tx == Commit(SupersedeEntity(Run(BeginTransaction(0)), call.obs[1],
                                     CurrentNode(call, entities),
                                     call.outgoing, call.incoming, clock))
    IN /\ call.op = "addObservations" /\ call.pc = "loaded"
       /\ tx.nid - 1 <= cap
       /\ entities' = tx.ents
       /\ relations' = tx.rels
       /\ nextId' = tx.nid
       /\ calls' = (calls \ {call}) \cup {[call EXCEPT !.pc = "done"]}
       /\ last' = [op |-> "addObservations", outcome |-> "ok",
                   storeThrew |-> FALSE, dirty |-> tx.dirty,
                   input |-> call.obs, results |-> tx.results,
                   embedsInTransaction |-> 0]
       /\ UNCHANGED <<clock, embeddingService, vectorInitialized, decayConfig,
                      process, files, localEmbedding, router>>

\* openNodes, the entity query; before is the graph the call would return
\* from the store as it is now
ReadEntities ==
  \E id \in Readers \ Started, names \in SUBSET Names \ {{}}, order \in Orders :
    /\ calls' = calls \cup
         {[Call(id, "openNodes", "entities") EXCEPT
             !.names = names,
             !.before = OpenNodes(entities, relations, names, order),
             !.entities = MapNodeToEntity(
                            Ordered({e \in entities : e.name \in names
                                                      /\ e.validTo = Null},
                                    order))]}
    /\ UNCHANGED <<entities, relations, clock, nextId, embeddingService,
                   vectorInitialized, decayConfig, process, files, localEmbedding, router,
                      last>>

\* openNodes, the relation query and the return; after is the graph the call
\* would return from the store as it is now
ReadRelations ==
  \E call \in calls :
    /\ call.op = "openNodes" /\ call.pc = "entities"
    /\ calls' = (calls \ {call}) \cup
         {[call EXCEPT !.pc = "done",
                       !.after = OpenNodes(entities, relations, call.names,
                                           "lo"),
                       !.graph = [entities |-> call.entities,
                                  relations |-> HydrateRelations(
                                    entities, relations, call.names)]]}
    /\ UNCHANGED <<entities, relations, clock, nextId, embeddingService,
                   vectorInitialized, decayConfig, process, files, localEmbedding, router,
                      last>>

(***************************************************************************)
(* SpecRace: the entity A with a relation to itself, two addObservations   *)
(* calls and one openNodes call that overlap.                              *)
(***************************************************************************)
RaceEntityBatches ==
  BatchesUpTo({entity \in EntityItems({"t1"}, {1}) : entity.name = "A"}, 1)
RaceRelationBatches ==
  BatchesUpTo({relation \in RelationItems :
                 relation.from = "A" /\ relation.to = "A"}, 1)
RaceObservationItems == [entityName : {"A"}, contents : {<<"y">>, <<"z">>}]

NextRace ==
  \/ CreateEntities(RaceEntityBatches, NoFailure, MaxRaceEntityId)
  \/ CreateRelations(RaceRelationBatches, NoFailure, MaxRaceRelationId)
  \/ LoadCurrentEntity(RaceObservationItems)
  \/ CloseAndRecreate(MaxRaceId)
  \/ ReadEntities
  \/ ReadRelations

SpecRace == Init /\ [][NextRace]_vars

\* two addObservations calls that have committed, having read the same
\* current row and carrying different contents
LostUpdatePairs ==
  {pair \in calls \X calls :
     /\ pair[1].id = "w1" /\ pair[2].id = "w2"
     /\ pair[1].pc = "done" /\ pair[2].pc = "done"
     /\ pair[1].node[1].id = pair[2].node[1].id
     /\ pair[1].obs[1].contents # pair[2].obs[1].contents}

\* C24: when two addObservations calls with different contents have both
\* read the same current row of an entity before either closed it, then
\* after both have committed no current row of the entity holds the
\* observations of both
C24_LostUpdate ==
  \A pair \in LostUpdatePairs :
    \A e \in CurrentByName(entities, pair[1].node[1].name) :
      ~(/\ SeqToSet(pair[1].obs[1].contents) \subseteq SeqToSet(e.observations)
        /\ SeqToSet(pair[2].obs[1].contents) \subseteq SeqToSet(e.observations))

\* both calls have committed and the entity has two current rows
C24_Witness ==
  /\ LostUpdatePairs # {}
  /\ \E pair \in LostUpdatePairs :
       Cardinality(CurrentByName(entities, pair[1].node[1].name)) = 2

\* the two graphs hold the same entity versions and the same relation rows
SameGraph(g, h) ==
  /\ SeqToSet(g.entities) = SeqToSet(h.entities)
  /\ g.relations = h.relations

\* C25: the graph an openNodes call returns while addObservations calls run
\* is the graph of the store as it was when the read began or as it was
\* when the read ended, never the entity rows of one with the relation rows
\* of the other.  The reads are those that began with the relation of E in
\* the store: every transaction committed during them is an addObservations
C25_ReadSeesOneStoreState ==
  \A call \in calls :
    (call.op = "openNodes" /\ call.pc = "done" /\ call.before.relations # {})
      => SameGraph(call.graph, call.before) \/ SameGraph(call.graph, call.after)

(***************************************************************************)
(* EmbeddingServiceFactory.createFromEnvironment.  A service is named by   *)
(* its class.                                                              *)
(***************************************************************************)
\* String.prototype.toLowerCase on the values the environment holds
ToLowerCase(str) ==
  CASE str = "LOCAL" -> "local"
    [] str = "OpenAI" -> "openai"
    [] str = "Auto" -> "auto"
    [] OTHER -> str

\* a || b on strings
OrElse(a, b) == IF a # "" THEN a ELSE b

\* openaiThrows: the constructor of OpenAIEmbeddingService throws
CreateFromEnvironment(env, openaiThrows) ==
  LET useMockEmbeddings == env.MOCK_EMBEDDINGS = "true"
      embeddingProvider == OrElse(ToLowerCase(env.EMBEDDING_PROVIDER), "auto")
      openaiApiKey == env.OPENAI_API_KEY
  IN IF useMockEmbeddings THEN "DefaultEmbeddingService"
     ELSE IF embeddingProvider = "local" THEN "LocalEmbeddingService"
     ELSE IF (embeddingProvider = "openai" \/ embeddingProvider = "auto")
             /\ openaiApiKey # ""
          THEN IF openaiThrows THEN "DefaultEmbeddingService"
               ELSE "OpenAIEmbeddingService"
     ELSE IF embeddingProvider = "auto" THEN "LocalEmbeddingService"
     ELSE "DefaultEmbeddingService"

(***************************************************************************)
(* SpecFactory: createFromEnvironment under every environment of           *)
(* FactoryEnvs.                                                            *)
(***************************************************************************)
FactoryEnvs ==
  [MOCK_EMBEDDINGS : {"", "true", "false"},
   EMBEDDING_PROVIDER : {"", "auto", "local", "openai", "LOCAL", "OpenAI",
                         "Auto", "cohere"},
   OPENAI_API_KEY : {"", "sk-1"}, NEO4J_DATABASE : {<<>>}]

FactoryProcesses == [env : FactoryEnvs, cwd : {<<"/">>}]

InitFactory == ConstructIn({DefaultDecayConfig}, FactoryProcesses, {NoFiles})

CreateFromEnvironmentCall ==
  \E openaiThrows \in BOOLEAN :
    /\ last' = [op |-> "createFromEnvironment", outcome |-> "ok",
                storeThrew |-> FALSE, dirty |-> FALSE, input |-> <<>>,
                results |-> <<>>, openaiThrows |-> openaiThrows,
                service |-> CreateFromEnvironment(process.env, openaiThrows)]
    /\ UNCHANGED <<entities, relations, clock, nextId, embeddingService,
                   vectorInitialized, decayConfig, calls, process, files, localEmbedding, router>>

NextFactory == CreateFromEnvironmentCall

SpecFactory == InitFactory /\ [][NextFactory]_vars

\* EMBEDDING_PROVIDER as the factory reads it
ProviderRead == OrElse(ToLowerCase(process.env.EMBEDDING_PROVIDER), "auto")

\* C26: for every EMBEDDING_PROVIDER, OPENAI_API_KEY and MOCK_EMBEDDINGS,
\* 'local' gives the local service, 'openai' the OpenAI service, and 'auto'
\* or no provider the OpenAI service with an API key and the local service
\* without one (the constructor of the OpenAI service not throwing)
C26_ProviderSelection ==
  (last.op = "createFromEnvironment" /\ ~last.openaiThrows)
    => /\ ProviderRead = "local" => last.service = "LocalEmbeddingService"
       /\ ProviderRead = "openai" => last.service = "OpenAIEmbeddingService"
       /\ ProviderRead = "auto"
            => last.service = IF process.env.OPENAI_API_KEY # ""
                              THEN "OpenAIEmbeddingService"
                              ELSE "LocalEmbeddingService"

(***************************************************************************)
(* The router.  A path is the sequence of its segments, "/" first when it  *)
(* is absolute; a file is its path and its content; a content is a         *)
(* sequence of lines and a line the sequence of its characters, with the   *)
(* name of a key or a database as one character.                           *)
(***************************************************************************)
\* path.resolve(from, to)
PathResolve(from, to) == IF to # <<>> /\ to[1] = "/" THEN to ELSE from \o to

\* path.join(a, b)
Join(a, b) == a \o b

\* path.dirname(p)
Dirname(p) == IF Len(p) <= 1 THEN p ELSE SubSeq(p, 1, Len(p) - 1)

\* path.parse(p).root of an absolute path
RootOf(p) == SubSeq(p, 1, 1)

ExistsSync(p) == \E f \in files : f.path = p

ReadFileSync(p) == (CHOOSE f \in files : f.path = p).content

\* findProjectRoot returning null
NoProject == [root |-> <<>>, configFile |-> <<>>, type |-> "null"]

\* the order in which a directory's files are tried, .env first
EnvPreferred(currentDir) ==
  IF ExistsSync(Join(currentDir, <<".env">>))
  THEN [root |-> currentDir, configFile |-> Join(currentDir, <<".env">>),
        type |-> ".env"]
  ELSE IF ExistsSync(Join(currentDir, <<".mnemosyne">>))
  THEN [root |-> currentDir,
        configFile |-> Join(currentDir, <<".mnemosyne">>),
        type |-> ".mnemosyne"]
  ELSE NoProject

\* one pass of the loop of findProjectRoot
ConfigIn(currentDir) ==
  IF ExistsSync(Join(currentDir, <<".mnemosyne">>))
  THEN [root |-> currentDir,
        configFile |-> Join(currentDir, <<".mnemosyne">>),
        type |-> ".mnemosyne"]
  ELSE IF ExistsSync(Join(currentDir, <<".env">>))
  THEN [root |-> currentDir, configFile |-> Join(currentDir, <<".env">>),
        type |-> ".env"]
  ELSE NoProject

RECURSIVE WalkUp(_, _)
WalkUp(currentDir, root) ==
  IF currentDir = root THEN NoProject
  ELSE IF ConfigIn(currentDir) # NoProject THEN ConfigIn(currentDir)
  ELSE WalkUp(Dirname(currentDir), root)

\* router.js and the test script
FindProjectRoot(startDir) ==
  LET currentDir == PathResolve(process.cwd, startDir)
  IN WalkUp(currentDir, RootOf(currentDir))

RECURSIVE WalkUpTs(_, _)
WalkUpTs(currentDir, root) ==
  LET mnemosynePath == PathResolve(currentDir, <<".mnemosyne">>)
      envPath == PathResolve(currentDir, <<".env">>)
  IN IF currentDir = root THEN NoProject
     ELSE IF ExistsSync(mnemosynePath)
     THEN [root |-> currentDir, configFile |-> mnemosynePath,
           type |-> ".mnemosyne"]
     ELSE IF ExistsSync(envPath)
     THEN [root |-> currentDir, configFile |-> envPath, type |-> ".env"]
     ELSE WalkUpTs(Dirname(currentDir), root)

\* router.ts
FindProjectRootTs(startDir) ==
  LET currentDir == PathResolve(process.cwd, startDir)
  IN WalkUpTs(currentDir, RootOf(currentDir))

\* String.prototype.trim
RECURSIVE TrimStart(_)
TrimStart(str) ==
  IF str # <<>> /\ Head(str) = " " THEN TrimStart(Tail(str)) ELSE str

RECURSIVE TrimEnd(_)
TrimEnd(str) ==
  IF str # <<>> /\ str[Len(str)] = " "
  THEN TrimEnd(SubSeq(str, 1, Len(str) - 1)) ELSE str

Trim(str) == TrimEnd(TrimStart(str))

\* the position of the first "=" of a line, 0 when it has none
IndexOfEquals(line) ==
  IF \E i \in 1..Len(line) : line[i] = "="
  THEN CHOOSE i \in 1..Len(line) :
         line[i] = "=" /\ \A j \in 1..(i - 1) : line[j] # "="
  ELSE 0

StartsWith(str, c) == str # <<>> /\ str[1] = c

EndsWith(str, c) == str # <<>> /\ str[Len(str)] = c

\* value.slice(1, -1) where the value is quoted
Unquote(value) ==
  IF \/ StartsWith(value, "\"") /\ EndsWith(value, "\"")
     \/ StartsWith(value, "'") /\ EndsWith(value, "'")
  THEN SubSeq(value, 2, Len(value) - 1)
  ELSE value

\* the object parseEnvFile starts from: a key not set reads as undefined,
\* which the router only tests with ||
EmptyConfig ==
  [MNEMOSYNE_DATABASE |-> <<>>, NEO4J_DATABASE |-> <<>>,
   PROJECT_NAME |-> <<>>, RETENTION_DAYS |-> <<>>, AUTO_CLEANUP |-> <<>>,
   ISOLATION_LEVEL |-> <<>>]

ConfigKeys == DOMAIN EmptyConfig

\* the callback of forEach in parseEnvFile
ParseLine(config, rawLine) ==
  LET line == Trim(rawLine)
      eq == IndexOfEquals(line)
      key == Trim(SubSeq(line, 1, eq - 1))
      value == Unquote(Trim(SubSeq(line, eq + 1, Len(line))))
  IN IF line = <<>> \/ StartsWith(line, "#") THEN config
     ELSE IF eq <= 1 THEN config
     ELSE IF Len(key) = 1 /\ key[1] \in ConfigKeys
     THEN [config EXCEPT ![key[1]] = value]
     ELSE config

RECURSIVE ParseLines(_, _)
ParseLines(config, lines) ==
  IF lines = <<>> THEN config
  ELSE ParseLines(ParseLine(config, Head(lines)), Tail(lines))

ParseEnvFile(filePath) == ParseLines(EmptyConfig, ReadFileSync(filePath))

Neo4j == <<"neo4j">>

\* a || b on the values of a config
OrValue(a, b) == IF a # <<>> THEN a ELSE b

GetDatabaseName(projectInfo) ==
  IF projectInfo = NoProject THEN Neo4j
  ELSE LET config == ParseEnvFile(projectInfo.configFile)
           dbName == OrValue(config.MNEMOSYNE_DATABASE, config.NEO4J_DATABASE)
       IN IF dbName # <<>> THEN dbName ELSE Neo4j

\* getDatabaseName of the test script
GetDatabaseNameTest(projectInfo) ==
  IF projectInfo = NoProject THEN Neo4j
  ELSE LET config == ParseEnvFile(projectInfo.configFile)
       IN OrValue(OrValue(config.MNEMOSYNE_DATABASE, config.NEO4J_DATABASE),
                  Neo4j)

\* path.basename(p) and path.parse(p).base
Basename(p) == SubSeq(p, Len(p), Len(p))

\* parseInt on the values the config files hold; Undef stands for NaN
ParseInt(value) ==
  CASE value = <<"30">> -> 30
    [] value = <<"7">> -> 7
    [] OTHER -> Undef

\* getProjectMetadata returning null
NoMetadata ==
  [name |-> <<>>, retention_days |-> Undef, auto_cleanup |-> FALSE,
   isolation_level |-> <<>>]

\* router.js (its database field is not handed to the server)
GetProjectMetadata(projectInfo) ==
  IF projectInfo = NoProject THEN NoMetadata
  ELSE LET config == ParseEnvFile(projectInfo.configFile)
       IN [name |-> OrValue(config.PROJECT_NAME, Basename(projectInfo.root)),
           retention_days |-> IF config.RETENTION_DAYS # <<>>
                              THEN ParseInt(config.RETENTION_DAYS) ELSE 90,
           auto_cleanup |-> config.AUTO_CLEANUP # <<"false">>,
           isolation_level |-> OrValue(config.ISOLATION_LEVEL, <<"project">>)]

\* router.ts
GetProjectMetadataTs(projectInfo) ==
  IF projectInfo = NoProject THEN NoMetadata
  ELSE LET config == ParseEnvFile(projectInfo.configFile)
       IN [name |-> OrValue(config.PROJECT_NAME, Basename(projectInfo.root)),
           retention_days |-> IF config.RETENTION_DAYS # <<>>
                              THEN ParseInt(config.RETENTION_DAYS) ELSE 90,
           auto_cleanup |-> config.AUTO_CLEANUP = <<"true">>,
           isolation_level |-> OrValue(config.ISOLATION_LEVEL, <<"project">>)]

\* an environment in which the inherited NEO4J_DATABASE, when there is
\* one, is kept
Inherited(env, dbName) ==
  [env EXCEPT !.NEO4J_DATABASE = OrValue(@, dbName)]

\* { ...process.env, NEO4J_DATABASE: dbName }
ServerEnv(env, dbName) == [env EXCEPT !.NEO4J_DATABASE = dbName]

\* spawn('npx', ['-y', '@zhadyz/mnemosyne-mcp'], { env, stdio, shell }):
\* the child runs, or it could not be spawned and an 'error' event is due
Spawn(spawned) ==
  [NoRouter EXCEPT !.pc = "spawned",
                   !.child = IF spawned THEN "running" ELSE "error"]

\* main of router.js up to the spawn: the server is a child process with
\* its own environment
RouterMain ==
  LET projectInfo == FindProjectRoot(process.cwd)
      dbName == GetDatabaseName(projectInfo)
  IN /\ last' = [op |-> "router.js", outcome |-> "ok", storeThrew |-> FALSE,
                 dirty |-> FALSE, input |-> <<>>, results |-> <<>>,
                 projectInfo |-> projectInfo, dbName |-> dbName,
                 inherited |-> process.env.NEO4J_DATABASE,
                 env |-> ServerEnv(process.env, dbName),
                 metadata |-> GetProjectMetadata(projectInfo)]
     /\ \E spawned \in BOOLEAN : router' = Spawn(spawned)
     /\ UNCHANGED <<entities, relations, clock, nextId, embeddingService,
                    vectorInitialized, decayConfig, calls, process, files,
                    localEmbedding>>

\* main of router.ts: the server is imported into the router's process
RouterTsMain ==
  LET projectInfo == FindProjectRootTs(process.cwd)
      dbName == GetDatabaseName(projectInfo)
  IN /\ process' = [process EXCEPT !.env = ServerEnv(process.env, dbName)]
     /\ last' = [op |-> "router.ts", outcome |-> "ok", storeThrew |-> FALSE,
                 dirty |-> FALSE, input |-> <<>>, results |-> <<>>,
                 projectInfo |-> projectInfo, dbName |-> dbName,
                 inherited |-> process.env.NEO4J_DATABASE,
                 env |-> process'.env,
                 metadata |-> GetProjectMetadataTs(projectInfo)]
     /\ UNCHANGED <<entities, relations, clock, nextId, embeddingService,
                    vectorInitialized, decayConfig, calls, files, localEmbedding, router>>

\* test-router.js
TestRouter ==
  LET projectInfo == FindProjectRoot(process.cwd)
      dbName == IF projectInfo # NoProject
                THEN GetDatabaseNameTest(projectInfo) ELSE Neo4j
  IN /\ last' = [op |-> "test-router.js", outcome |-> "ok",
                 storeThrew |-> FALSE, dirty |-> FALSE, input |-> <<>>,
                 results |-> <<>>, projectInfo |-> projectInfo,
                 dbName |-> dbName,
                 inherited |-> process.env.NEO4J_DATABASE,
                 env |-> process.env, metadata |-> NoMetadata]
     /\ UNCHANGED <<entities, relations, clock, nextId, embeddingService,
                    vectorInitialized, decayConfig, calls, process, files, localEmbedding, router>>

(***************************************************************************)
(* SpecRouter: the three scripts started in every directory of RouterDirs, *)
(* over every layout of empty config files in those directories and over   *)
(* every pair of config files of the project directory.                    *)
(***************************************************************************)
MaxLines == 2

RouterDirs == {<<"/">>, <<"/", "a">>, <<"/", "a", "b">>, <<"/", "c">>}

ConfigNames == {<<".mnemosyne">>, <<".env">>}

ConfigPaths == {Join(dir, name) : dir \in RouterDirs, name \in ConfigNames}

EmptyLayouts ==
  {{[path |-> p, content |-> <<>>] : p \in paths} :
     paths \in SUBSET ConfigPaths}

RouterLines ==
  {<<"MNEMOSYNE_DATABASE", "=", "alpha">>,
   <<"MNEMOSYNE_DATABASE", "=">>,
   <<"NEO4J_DATABASE", "=", "beta">>,
   <<"#", "MNEMOSYNE_DATABASE", "=", "alpha">>,
   <<" ", "MNEMOSYNE_DATABASE", " ", "=", " ", "\"", "alpha", "\"", " ">>,
   <<"MNEMOSYNE_DATABASE", "=", "'", "'">>,
   <<"PROJECT_NAME", "=", "alpha">>,
   <<"AUTO_CLEANUP", "=", "true">>,
   <<"AUTO_CLEANUP", "=", "false">>,
   <<"RETENTION_DAYS", "=", "30">>}

RECURSIVE ContentsUpTo(_)
ContentsUpTo(n) ==
  IF n = 0 THEN {<<>>}
  ELSE ContentsUpTo(n - 1)
         \cup {Append(c, l) : c \in ContentsUpTo(n - 1), l \in RouterLines}

EnvContents ==
  {<<>>, <<<<"NEO4J_DATABASE", "=", "beta">>>>,
   <<<<"MNEMOSYNE_DATABASE", "=", "gamma">>>>}

ProjectLayouts ==
  {m \cup e :
     m \in {{}} \cup {{[path |-> <<"/", "a", ".mnemosyne">>, content |-> c]} :
                        c \in ContentsUpTo(MaxLines)},
     e \in {{}} \cup {{[path |-> <<"/", "a", ".env">>, content |-> c]} :
                        c \in EnvContents}}

RouterProcesses ==
  [env : [MOCK_EMBEDDINGS : {""}, EMBEDDING_PROVIDER : {""},
          OPENAI_API_KEY : {""}, NEO4J_DATABASE : {<<>>, <<"old">>}],
   cwd : RouterDirs]

InitRouter ==
  ConstructIn({DefaultDecayConfig}, RouterProcesses,
              EmptyLayouts \cup ProjectLayouts)

NextRouter == RouterMain \/ RouterTsMain \/ TestRouter

SpecRouter == InitRouter /\ [][NextRouter]_vars

RouterOps == {"router.js", "router.ts", "test-router.js"}

\* the directories findProjectRoot is to look in: the start directory and
\* its ancestors, the filesystem root excluded
RECURSIVE BelowRoot(_)
BelowRoot(dir) ==
  IF Len(dir) <= 1 THEN {} ELSE {dir} \cup BelowRoot(Dirname(dir))

HasConfig(dir) == \E name \in ConfigNames : ExistsSync(Join(dir, name))

\* C27: findProjectRoot returns the config file of the nearest directory,
\* among the working directory and its ancestors below the filesystem
\* root, that holds .mnemosyne or .env, .mnemosyne when it holds both, and
\* null when none does; router.js, router.ts and the test script return
\* the same
C27_NearestConfigFile ==
  LET found == {dir \in BelowRoot(process.cwd) : HasConfig(dir)}
      nearest == CHOOSE dir \in found : \A d \in found : Len(d) <= Len(dir)
      expected ==
        IF found = {} THEN NoProject
        ELSE IF ExistsSync(Join(nearest, <<".mnemosyne">>))
        THEN [root |-> nearest,
              configFile |-> Join(nearest, <<".mnemosyne">>),
              type |-> ".mnemosyne"]
        ELSE [root |-> nearest, configFile |-> Join(nearest, <<".env">>),
              type |-> ".env"]
  IN /\ FindProjectRoot(process.cwd) = expected
     /\ FindProjectRootTs(process.cwd) = expected
     /\ last.op \in RouterOps => last.projectInfo = expected

\* router.js started in /a/b, both files in /a and in the root, none in /a/b
C27_Witness ==
  /\ last.op = "router.js"
  /\ process.cwd = <<"/", "a", "b">>
  /\ ~HasConfig(<<"/", "a", "b">>)
  /\ ExistsSync(<<"/", "a", ".mnemosyne">>) /\ ExistsSync(<<"/", "a", ".env">>)
  /\ ExistsSync(<<"/", ".mnemosyne">>)
  /\ last.projectInfo.configFile = <<"/", "a", ".mnemosyne">>

\* C28: the NEO4J_DATABASE the server is started with is
\* MNEMOSYNE_DATABASE of the found config file when not empty, else
\* NEO4J_DATABASE of that file when not empty, else 'neo4j'; 'neo4j' when
\* no config file is found; whatever NEO4J_DATABASE the router inherited
C28_DatabaseHandedToServer ==
  LET found == last.projectInfo
      config == ParseEnvFile(found.configFile)
      expected ==
        IF found = NoProject THEN Neo4j
        ELSE IF config.MNEMOSYNE_DATABASE # <<>>
        THEN config.MNEMOSYNE_DATABASE
        ELSE IF config.NEO4J_DATABASE # <<>> THEN config.NEO4J_DATABASE
        ELSE Neo4j
  IN /\ last.op \in {"router.js", "router.ts"}
          => last.env.NEO4J_DATABASE = expected
     /\ last.op = "test-router.js" => last.dbName = expected

\* router.js with an inherited NEO4J_DATABASE and a .mnemosyne file whose
\* MNEMOSYNE_DATABASE is empty, the .env beside it naming another database
C28_Witness ==
  /\ last.op = "router.js"
  /\ last.inherited = <<"old">>
  /\ last.projectInfo.type = ".mnemosyne"
  /\ ReadFileSync(last.projectInfo.configFile)
       = <<<<"MNEMOSYNE_DATABASE", "=", "'", "'">>,
           <<"NEO4J_DATABASE", "=", "beta">>>>
  /\ ExistsSync(<<"/", "a", ".env">>)
  /\ last.env.NEO4J_DATABASE = <<"beta">>

(***************************************************************************)
(* SpecObserve: observations appended to and removed from the entities,    *)
(* one item a call, the appended lists repeating a string or not.          *)
(***************************************************************************)
MaxObserveId == 4
MaxObserveEntityId == 2
MaxObserveBatch == 1

ObserveEntityBatches == BatchesUpTo(EntityItems({"t1"}, {1}), MaxObserveBatch)

AppendedItems ==
  [entityName : Names,
   contents : {<<"x">>, <<"y", "y">>, <<"y", "x", "z">>}]

RemovedItems ==
  [entityName : Names,
   observations : {<<"x">>, <<"z">>, <<"y", "x">>}]

AppendedBatches == BatchesUpTo(AppendedItems, MaxObserveBatch)

RemovedBatches == BatchesUpTo(RemovedItems, MaxObserveBatch)

NextObserve ==
  \/ CreateEntities(ObserveEntityBatches, NoFailure, MaxObserveEntityId)
  \/ AddObservations(AppendedBatches, NoFailure, MaxObserveId)
  \/ DeleteObservationsCall(RemovedBatches, NoFailure, MaxObserveId, TRUE)

SpecObserve == Init /\ [][NextObserve]_vars

\* no string is twice in the sequence
NoRepeat(s) == \A i, j \in DOMAIN s : i # j => s[i] # s[j]

\* the strings of s that are not in S, each once, in the order of their
\* first place in s
RECURSIVE FirstOfEach(_, _)
FirstOfEach(s, S) ==
  IF s = <<>> THEN <<>>
  ELSE IF Head(s) \in S THEN FirstOfEach(Tail(s), S)
       ELSE <<Head(s)>> \o FirstOfEach(Tail(s), S \cup {Head(s)})

\* C29: a deleteObservations item for an entity makes a new version exactly
\* when one of its strings is among the current observations: the previous
\* row then gets validTo = now and the new current row has version + 1 and
\* the previous observations without the listed strings, in their order;
\* when none is among them, no row is changed and none is added
C29_NewVersionOnlyWhenRemoved ==
  [][(/\ last'.op = "deleteObservations"
      /\ last'.outcome = "ok"
      /\ Len(last'.input) = 1
      /\ Cardinality(CurrentByName(entities, last'.input[1].entityName)) = 1)
     => LET deletion == last'.input[1]
            e == CHOOSE x \in CurrentByName(entities, deletion.entityName) :
                   TRUE
            listed == SeqToSet(deletion.observations)
        IN IF listed \cap SeqToSet(e.observations) # {}
           THEN /\ [e EXCEPT !.validTo = clock] \in entities'
                /\ \E n \in NewEntities :
                     /\ CurrentByName(entities', deletion.entityName) = {n}
                     /\ n.version = e.version + 1
                     /\ n.observations = FilterNotIn(e.observations, listed)
           ELSE entities' = entities]_vars

\* C30: when the current observations of an entity repeat no string, the
\* current observations after an addObservations item for it repeat none
\* either, whatever its contents: they are the previous ones in their
\* order, then the strings of contents that were not there, each once, in
\* the order of contents
C30_NoDuplicateOnAppend ==
  [][(/\ last'.op = "addObservations"
      /\ last'.outcome = "ok"
      /\ Len(last'.input) = 1
      /\ Cardinality(CurrentByName(entities, last'.input[1].entityName)) = 1)
     => LET obs == last'.input[1]
            e == CHOOSE x \in CurrentByName(entities, obs.entityName) : TRUE
        IN NoRepeat(e.observations)
             => \A n \in CurrentByName(entities', obs.entityName) :
                  /\ NoRepeat(n.observations)
                  /\ n.observations
                       = e.observations
                           \o FirstOfEach(obs.contents,
                                          SeqToSet(e.observations))]_vars

(***************************************************************************)
(* SpecCarry: relations with and without a strength, self-relations        *)
(* included, carried to the next version of an entity by addObservations.  *)
(***************************************************************************)
MaxCarryId == 7
MaxCarryEntityId == 2
MaxCarryRelationId == 4
MaxCarryBatch == 1

CarryEntityBatches == BatchesUpTo(EntityItems({"t1"}, {1}), MaxCarryBatch)

CarryRelationItems ==
  [from : Names, to : Names, relationType : RelTypes, strength : {Undef, 50},
   confidence : {Undef}, metadata : {Undef}]

CarryRelationBatches == BatchesUpTo(CarryRelationItems, MaxCarryBatch)

CarryObservationBatches == BatchesUpTo(ObservationItems, MaxCarryBatch)

NextCarry ==
  \/ CreateEntities(CarryEntityBatches, NoFailure, MaxCarryEntityId)
  \/ CreateRelations(CarryRelationBatches, NoFailure, MaxCarryRelationId)
  \/ AddObservations(CarryObservationBatches, NoFailure, MaxCarryId)

SpecCarry == Init /\ [][NextCarry]_vars

\* the current rows of rels between the names of the ends of r, of its type
CurrentLike(ents, rels, r, names) ==
  {q \in rels : /\ q.validTo = Null
                /\ q.relationType = r.relationType
                /\ NameOfId(ents, q.fromId) = NameOfId(names, r.fromId)
                /\ NameOfId(ents, q.toId) = NameOfId(names, r.toId)}

\* C31: when addObservations has added an observation to E, every relation
\* that was current with E at one end, or at both, has validTo = now and
\* one current successor between the same names with the same
\* relationType, whose strength, confidence and metadata are those of the
\* closed row, 0.9 and 0.95 standing in for a strength or a confidence the
\* closed row did not have
C31_AdjacentRelationsCarried ==
  [][(/\ last'.op = "addObservations"
      /\ last'.outcome = "ok"
      /\ Len(last'.input) = 1
      /\ Len(last'.results) = 1
      /\ last'.results[1][2] # <<>>
      /\ Cardinality(CurrentByName(entities, last'.input[1].entityName)) = 1)
     => LET e == CHOOSE x \in CurrentByName(entities,
                                            last'.input[1].entityName) : TRUE
        IN \A r \in relations :
             (/\ r.validTo = Null
              /\ r.fromId = e.id \/ r.toId = e.id
              /\ CurrentLike(entities, relations, r, entities) = {r})
             => /\ [r EXCEPT !.validTo = clock] \in relations'
                /\ \E q \in relations' :
                     /\ CurrentLike(entities', relations', r, entities) = {q}
                     /\ q.strength = IF r.strength # Undef THEN r.strength
                                     ELSE DefaultStrength
                     /\ q.confidence = IF r.confidence # Undef
                                       THEN r.confidence
                                       ELSE DefaultConfidence
                     /\ q.metadata = r.metadata]_vars

(***************************************************************************)
(* getEntityHistory and getRelationHistory.  ORDER BY validFrom ASC leaves *)
(* the store free to return rows of one validFrom in either order.         *)
(***************************************************************************)
\* rows ORDER BY validFrom ASC; order decides between rows of one validFrom
RECURSIVE OrderByValidFrom(_, _)
OrderByValidFrom(rows, order) ==
  IF rows = {} THEN <<>>
  ELSE LET earliest == {r \in rows : \A q \in rows : r.validFrom <= q.validFrom}
           first == FirstEntity(earliest, order)
       IN <<first>> \o OrderByValidFrom(rows \ {first}, order)

GetEntityHistory(ents, entityName, order) ==
  MapNodeToEntity(OrderByValidFrom(RowsByName(ents, entityName), order))

GetEntityHistoryCall ==
  \E entityName \in Names, order \in Orders :
    /\ last' = [op |-> "getEntityHistory", outcome |-> "ok",
                storeThrew |-> FALSE, dirty |-> FALSE, input |-> <<>>,
                results |-> <<>>, entityName |-> entityName,
                history |-> GetEntityHistory(entities, entityName, order)]
    /\ UNCHANGED <<entities, relations, clock, nextId, embeddingService,
                   vectorInitialized, decayConfig, calls, process, files, localEmbedding, router>>

(***************************************************************************)
(* SpecVersions: entities created, changed by addObservations and          *)
(* deleteObservations within one instant or across instants, and their     *)
(* histories read.                                                         *)
(***************************************************************************)
MaxVersionId == 4
MaxVersionEntityId == 2
MaxVersionBatch == 1

VersionEntityBatches == BatchesUpTo(EntityItems({"t1"}, {1}), MaxVersionBatch)

VersionObservationBatches == BatchesUpTo(ObservationItems, MaxVersionBatch)

VersionDeletionBatches == BatchesUpTo(DeletionItems, MaxVersionBatch)

NextVersions ==
  \/ CreateEntities(VersionEntityBatches, NoFailure, MaxVersionEntityId)
  \/ AddObservations(VersionObservationBatches, NoFailure, MaxVersionId)
  \/ DeleteObservations(VersionDeletionBatches, NoFailure, MaxVersionId)
  \/ Tick
  \/ GetEntityHistoryCall

SpecVersions == Init /\ [][NextVersions]_vars

\* C32: for a name created once, getEntityHistory returns every stored
\* version in validFrom order, the versions in that order are 1, 2, 3, ...
\* and the validTo of each closed row is the validFrom of the next, also for
\* changes made within one instant
C32_HistoryIsTheVersionChain ==
  LET history == last.history
      created == {e \in RowsByName(entities, last.entityName) : e.version = 1}
  IN (last.op = "getEntityHistory" /\ Cardinality(created) = 1)
       => /\ {history[i].id : i \in DOMAIN history}
               = {e.id : e \in RowsByName(entities, last.entityName)}
          /\ \A i \in DOMAIN history :
               /\ history[i].version = i
               /\ i < Len(history)
                    => /\ history[i].validFrom <= history[i + 1].validFrom
                       /\ history[i].validTo = history[i + 1].validFrom

\* the rows a step has closed: current before it, with a validTo after it
ClosedRelations ==
  {r \in relations : /\ r.validTo = Null
                     /\ r \notin relations'
                     /\ \E q \in relations' :
                          /\ q.validTo # Null
                          /\ q = [r EXCEPT !.validTo = q.validTo]}

\* the rows a step has created in place of the closed row r
Successors(r) ==
  {q \in relations' :
     /\ \A p \in relations : p.id # q.id
     /\ q.relationType = r.relationType
     /\ NameOfId(entities', q.fromId) = NameOfId(entities, r.fromId)
     /\ NameOfId(entities', q.toId) = NameOfId(entities, r.toId)}

\* C33: the row that updateRelation or addObservations creates in place of
\* a relation row it closes has a greater version than the closed row
C33_RecreatedVersionIsGreater ==
  [][(last'.op \in {"updateRelation", "addObservations"}
      /\ last'.outcome = "ok")
     => \A r \in ClosedRelations :
          \A q \in Successors(r) : q.version > r.version]_vars

\* the instants a graph is asked for: those the clock takes, one before
\* and one after
Instants == 0 .. (MaxClock + 1)

\* C34: at every instant t, getGraphAtTime(t) returns the entity rows with
\* validFrom <= t and validTo null or later than t, and among them at most
\* one version of a name
C34_OneVersionPerNameAtAnyInstant ==
  \A t \in Instants :
    LET graph == GetGraphAtTime(entities, relations, t, "lo").entities
    IN /\ {graph[i].id : i \in DOMAIN graph}
            = {e.id : e \in {x \in entities :
                               /\ x.validFrom <= t
                               /\ x.validTo = Null \/ t < x.validTo}}
       /\ \A i, j \in DOMAIN graph : graph[i].name = graph[j].name => i = j

\* C35: for every config file, router.js and router.ts compute the same
\* database name and the same project metadata; auto_cleanup is true in
\* both when the file has no AUTO_CLEANUP
C35_RoutersAgreeOnMetadata ==
  LET projectInfo == FindProjectRoot(process.cwd)
      projectInfoTs == FindProjectRootTs(process.cwd)
      js == GetProjectMetadata(projectInfo)
      ts == GetProjectMetadataTs(projectInfoTs)
  IN /\ last.op = "router.js" => last.metadata = js
     /\ last.op = "router.ts" => last.metadata = ts
     /\ GetDatabaseName(projectInfo) = GetDatabaseName(projectInfoTs)
     /\ js = ts
     /\ (/\ projectInfo # NoProject
         /\ ParseEnvFile(projectInfo.configFile).AUTO_CLEANUP = <<>>)
          => js.auto_cleanup /\ ts.auto_cleanup

\* C36: the confidence getDecayedGraph returns for a relation is never
\* greater than the confidence its row holds
C36_DecayOnlyReduces ==
  \A relation \in DecayedRelations :
    relation.confidence <= StoredRelation(relation).confidence

\* C37: when the current version of an entity has an embedding, its current
\* version after addObservations or deleteObservations has one too
C37_EmbeddingSurvivesNewVersion ==
  [][(last'.op \in {"addObservations", "deleteObservations"}
      /\ last'.outcome = "ok")
     => \A n \in Names :
          (/\ Cardinality(CurrentByName(entities, n)) = 1
           /\ \A e \in CurrentByName(entities, n) : e.embedding # NoEmb)
          => \A e \in CurrentByName(entities', n) : e.embedding # NoEmb]_vars

(***************************************************************************)
(* LocalEmbeddingService.  Calls run as tasks of one thread: a task runs   *)
(* from one await to the next without another task in between.  pc of a    *)
(* call: "awaiting" (await this._initialize()), "inferring" (await         *)
(* this.extractor(...)), "done", "failed".                                 *)
(***************************************************************************)
EmbeddingCalls == {"e1", "e2", "e3"}

EmbeddingOps == {"generateEmbedding", "generateEmbeddings"}

\* an _initialize that looks at the extractor only
InitializeUnshared(service) ==
  IF service.extractor THEN service
  ELSE [service EXCEPT !.initPromise = "pending", !.loads = @ + 1]

\* _initialize up to its return: the extractor is there, or there is an
\* initPromise to return, or the load is started and its promise kept
Initialize(service) ==
  IF service.extractor THEN service
  ELSE IF service.initPromise # "null" THEN service
  ELSE [service EXCEPT !.initPromise = "pending", !.loads = @ + 1]

\* a call starts and runs to await this._initialize()
StartEmbedding ==
  \E id \in EmbeddingCalls, op \in EmbeddingOps :
    /\ \A call \in calls : call.id # id
    /\ localEmbedding' = Initialize(localEmbedding)
    /\ calls' = calls \cup {[id |-> id, op |-> op, pc |-> "awaiting",
                             initialized |-> localEmbedding.extractor,
                             loadsBefore |-> localEmbedding.loads]}
    /\ last' = [op |-> op, outcome |-> "ok", storeThrew |-> FALSE,
                dirty |-> FALSE, input |-> <<>>, results |-> <<>>,
                initPromise |-> localEmbedding.initPromise]
    /\ UNCHANGED <<entities, relations, clock, nextId, embeddingService,
                   vectorInitialized, decayConfig, process, files, router>>

\* the promise of pipeline() settles: the extractor is assigned and
\* initPromise is fulfilled, or initPromise is rejected
PipelineSettles ==
  \E loaded \in BOOLEAN :
    /\ localEmbedding.initPromise = "pending"
    /\ localEmbedding' = [localEmbedding EXCEPT
                            !.extractor = loaded,
                            !.initPromise = IF loaded THEN "fulfilled"
                                            ELSE "rejected"]
    /\ UNCHANGED <<entities, relations, clock, nextId, embeddingService,
                   vectorInitialized, decayConfig, calls, process, files,
                   router, last>>

\* a call resumes after await this._initialize(): it throws when the
\* promise is rejected or there is no extractor, else it calls the extractor
ResumeEmbedding ==
  \E call \in calls :
    /\ call.pc = "awaiting"
    /\ call.initialized \/ localEmbedding.initPromise # "pending"
    /\ calls' = (calls \ {call})
                  \cup {[call EXCEPT
                           !.pc = IF ~call.initialized
                                     /\ localEmbedding.initPromise = "rejected"
                                  THEN "failed"
                                  ELSE IF ~localEmbedding.extractor
                                  THEN "failed" ELSE "inferring"]}
    /\ UNCHANGED <<entities, relations, clock, nextId, embeddingService,
                   vectorInitialized, decayConfig, process, files,
                   localEmbedding, router, last>>

\* the extractor answers or throws
ExtractorSettles ==
  \E call \in calls, answered \in BOOLEAN :
    /\ call.pc = "inferring"
    /\ calls' = (calls \ {call})
                  \cup {[call EXCEPT !.pc = IF answered THEN "done"
                                            ELSE "failed"]}
    /\ UNCHANGED <<entities, relations, clock, nextId, embeddingService,
                   vectorInitialized, decayConfig, process, files,
                   localEmbedding, router, last>>

NextLocal ==
  StartEmbedding \/ PipelineSettles \/ ResumeEmbedding \/ ExtractorSettles

SpecLocal == Init /\ [][NextLocal]_vars

\* C38: whatever the calls started before the model is loaded, pipeline()
\* is called once at most, and a call is at the extractor or beyond only
\* when the load has completed
C38_ModelLoadedOnce ==
  /\ localEmbedding.loads <= 1
  /\ \A call \in calls :
       call.pc \in {"inferring", "done"}
         => localEmbedding.extractor /\ localEmbedding.initPromise = "fulfilled"

\* three calls have started before the load completed, and one of them has
\* got its embedding
C38_Witness ==
  /\ Cardinality({call \in calls : ~call.initialized}) = 3
  /\ \A call \in calls : call.loadsBefore <= 1
  /\ \E call \in calls : call.pc = "done"
  /\ \E call \in calls : call.loadsBefore = 0
  /\ \E call \in calls : call.loadsBefore = 1

\* C39: a call that starts after a load has failed calls pipeline() again
C39_FailedLoadIsRetried ==
  [][(/\ localEmbedding.initPromise = "rejected"
      /\ ~localEmbedding.extractor
      /\ calls' # calls
      /\ Cardinality(calls') > Cardinality(calls))
     => localEmbedding'.loads = localEmbedding.loads + 1]_vars

\* ---------------------------------------------------------------------
\* router.js: the life of the router and of its child after the spawn

RouterSignals == {"SIGTERM", "SIGINT"}

ChildSignals == {"SIGTERM", "SIGINT", "SIGKILL"}

ExitCodes == {0, 1, 2}

RouterAlive == router.pc \notin {"exited", "killed"}

\* code || 0
OrZero(code) == IF code = Undef \/ code = 0 THEN 0 ELSE code

\* the code the 'exit' listener hands to process.exit
ExitStatus(code, signal) == IF signal # "null" THEN 1 ELSE OrZero(code)

\* main() of a fresh router process, up to the spawn
StartRouter ==
  /\ router.pc = "main"
  /\ RouterMain

\* child.on('error', ...) and child.on('exit', ...)
ListenToChild ==
  /\ router.pc = "spawned"
  /\ router' = [router EXCEPT !.pc = "listening"]
  /\ UNCHANGED <<entities, relations, clock, nextId, embeddingService,
                 vectorInitialized, decayConfig, calls, process, files,
                 localEmbedding, last>>

\* process.on('SIGTERM', ...), then process.on('SIGINT', ...) and the
\* return of main
ListenToSignal ==
  /\ router.pc = "listening"
  /\ router' = IF "SIGTERM" \notin router.handlers
               THEN [router EXCEPT !.handlers = @ \cup {"SIGTERM"}]
               ELSE [router EXCEPT !.handlers = @ \cup {"SIGINT"},
                                   !.pc = "running"]
  /\ UNCHANGED <<entities, relations, clock, nextId, embeddingService,
                 vectorInitialized, decayConfig, calls, process, files,
                 localEmbedding, last>>

\* the operating system delivers SIGTERM or SIGINT to the router: with a
\* listener the signal waits for the event loop, without one it ends the
\* process
ReceiveSignal ==
  \E sig \in RouterSignals :
    /\ RouterAlive
    /\ sig \notin router.received
    /\ router' = IF sig \in router.handlers
                 THEN [router EXCEPT !.received = @ \cup {sig},
                                     !.pending = @ \cup {sig}]
                 ELSE [router EXCEPT !.received = @ \cup {sig},
                                     !.pc = "killed"]
    /\ UNCHANGED <<entities, relations, clock, nextId, embeddingService,
                   vectorInitialized, decayConfig, calls, process, files,
                   localEmbedding, last>>

\* the listener of SIGTERM or SIGINT: child.kill(sig), which sends the
\* signal when the child runs and does nothing otherwise
ForwardSignal ==
  \E sig \in router.pending :
    /\ router.pc = "running"
    /\ router' = [router EXCEPT
                    !.pending = @ \ {sig},
                    !.forwarded = IF router.child = "running"
                                  THEN @ \cup {sig} ELSE @]
    /\ UNCHANGED <<entities, relations, clock, nextId, embeddingService,
                   vectorInitialized, decayConfig, calls, process, files,
                   localEmbedding, last>>

\* the child ends: it exits with a code, or a signal kills it
ChildEnds ==
  /\ router.child = "running"
  /\ \/ \E code \in ExitCodes :
          router' = [router EXCEPT !.child = "ended", !.code = code]
     \/ \E sig \in ChildSignals :
          router' = [router EXCEPT !.child = "ended", !.signal = sig]
  /\ UNCHANGED <<entities, relations, clock, nextId, embeddingService,
                 vectorInitialized, decayConfig, calls, process, files,
                 localEmbedding, last>>

\* the listener of 'exit'
ChildExit ==
  /\ router.pc = "running"
  /\ router.child = "ended"
  /\ router' = [router EXCEPT
                  !.pc = "exited",
                  !.exit = ExitStatus(router.code, router.signal)]
  /\ UNCHANGED <<entities, relations, clock, nextId, embeddingService,
                 vectorInitialized, decayConfig, calls, process, files,
                 localEmbedding, last>>

\* the listener of 'error'
ChildError ==
  /\ router.pc = "running"
  /\ router.child = "error"
  /\ router' = [router EXCEPT !.pc = "exited", !.exit = 1]
  /\ UNCHANGED <<entities, relations, clock, nextId, embeddingService,
                 vectorInitialized, decayConfig, calls, process, files,
                 localEmbedding, last>>

\* the router is started in any directory, with no project file around
InitSpawn == ConstructIn({DefaultDecayConfig}, RouterProcesses, {NoFiles})

NextSpawn ==
  \/ StartRouter
  \/ ListenToChild
  \/ ListenToSignal
  \/ ReceiveSignal
  \/ ForwardSignal
  \/ ChildEnds
  \/ ChildExit
  \/ ChildError

SpecSpawn == InitSpawn /\ [][NextSpawn]_vars

\* C40: the router ends together with its child: when it has exited, the
\* child has ended or could not be spawned, and the exit code is the
\* child's code (0 for null), or 1 when a signal killed the child or it
\* could not be spawned; while router and child both run, every SIGTERM
\* or SIGINT the router received has been passed to the child or waits for
\* its listener; the router is never gone while the child still runs
C40_RouterEndsWithChild ==
  /\ router.pc = "exited" =>
       /\ router.child \in {"ended", "error"}
       /\ router.child = "error" => router.exit = 1
       /\ (router.child = "ended" /\ router.signal # "null") => router.exit = 1
       /\ (router.child = "ended" /\ router.signal = "null")
            => router.exit = router.code
  /\ (RouterAlive /\ router.child = "running")
       => router.received \subseteq (router.forwarded \cup router.pending)
  /\ ~RouterAlive => router.child # "running"

\* the part of C40 about the exit code alone
C40_ExitCodeFollowsChild ==
  router.pc = "exited" =>
    /\ router.child \in {"ended", "error"}
    /\ router.child = "error" => router.exit = 1
    /\ (router.child = "ended" /\ router.signal # "null") => router.exit = 1
    /\ (router.child = "ended" /\ router.signal = "null")
         => router.exit = router.code

\* the part of C40 about signals that arrive once both listeners are there
C40_ListenedSignalsForwarded ==
  (router.pc = "running" /\ router.child = "running")
    => router.received \subseteq (router.forwarded \cup router.pending)

====
